---- MODULE Spec2Model ----
(***************************************************************************)
(* Gesturefy content script (src/core/workarounds/content.bundle.js):      *)
(* the MouseGestureController drag state machine, and the Rocker- and      *)
(* WheelGestureController detectors, as a state machine whose actions are   *)
(* the DOM event handlers and the public methods of the controllers.       *)
(*                                                                         *)
(* A handler is modelled as an operator from the controller's fields (a     *)
(* record c) and the event to the controller's fields after the handler     *)
(* returned; an action dispatches one event to the handlers listening.      *)
(***************************************************************************)
EXTENDS Integers, Sequences, FiniteSets, TLC

\* ------------------------------------------------------------------ bounds

\* longest mouseEventBuffer the environment lets a gesture attempt grow to
MaxBuf == 3

\* latest event.timeStamp the clock reaches
MaxTime == 2

\* latest event.timeStamp of the events one mouse produces
MaxMouseTime == 6

\* the count of suppressed clicks is kept up to this number
MaxSuppressed == 2

\* number of points added to the pattern constructor between two clear() calls
MaxPoints == 4

\* longest mouseEventBuffer of a gesture drawn with several updates
MaxStroke == 5

\* ------------------------------------------------------- program constants

LEFT_MOUSE_BUTTON == 1
RIGHT_MOUSE_BUTTON == 2
MIDDLE_MOUSE_BUTTON == 4

PASSIVE == 0
PENDING == 1
ACTIVE == 2
ABORTED == 3

\* timeoutId = null (no timeout identifier stored); setTimeout ids are > 0
NoTimeout == 0

\* ------------------------------------------------------------------- state

VARIABLES
  \* MouseGestureController, private variables
  state,             \* PASSIVE, PENDING, ACTIVE or ABORTED
  preventDefault,    \* context-menu suppression flag
  timeoutId,         \* identifier of the last timeout set, or NoTimeout
  mouseEventBuffer,  \* sequence of buffered pointer events
  \* MouseGestureController, configuration (set through the public setters)
  mouseButton,
  suppressionKey,
  distanceThreshold,
  timeoutActive,
  \* RockerGestureController, private variables
  preventDefault_1,  \* preventDefault$1: click/context-menu suppression flag
  lastMouseup,       \* timeStamp of the last mouseup
  \* WheelGestureController, private variables and configuration
  preventDefault_2,  \* preventDefault$2: click/context-menu suppression flag
  lastMouseup_1,     \* lastMouseup$1: timeStamp of the last mouseup
  accumulatedDeltaY,
  mouseButton_1,     \* mouseButton$1
  wheelSensitivity,
  \* the host window
  attached,          \* DOM event types the drag controller listens to
  attached_1,        \* DOM event types the rocker controller listens to
  attached_2,        \* DOM event types the wheel controller listens to
  pendingTimeouts,   \* identifiers of the timeouts set and neither fired nor cleared
  now,               \* the clock event.timeStamp is read from, positive
  buttonsHeld,       \* the buttons of the mouse that are down
  followUp,          \* the click or contextmenu event the last button change brings
  \* observation of the last dispatch
  fired,             \* callbacks of events[...] invoked, in order, with their arguments
  sent,              \* subjects of the messages sent to the background script
  defaultPrevented,  \* event.preventDefault() was called on the dispatched event
  propagationStopped,\* event.stopPropagation() was called on the dispatched event
  lastCall,          \* type of the event dispatched last, or name of the method called
  \* history
  lastPress,         \* the event of the most recent initialize()
  startsFired,       \* number of 'start' dispatches since the most recent initialize()
  contextmenuSeen,   \* handleContextmenu ran since the most recent initialize(), or since load
  accumulatedBefore, \* accumulatedDeltaY as the last dispatch found it
  suppressedClicks,  \* clicks the rocker controller suppressed since its suppression was armed
  armedBy,           \* what armed the rocker's suppression last
  \* the PatternConstructor instance of the content script
  patternConstructor,
  changeIndicator,   \* what the last addPoint call returned
  points,            \* the points added since the construction or the last clear()
  \* the listener registries of the three controllers
  events,            \* MouseGestureController: callbacks of start, update, abort, end
  events_1,          \* events$1: callbacks of rockerleft, rockerright
  events_2,          \* events$2: callbacks of wheelup, wheeldown
  invoked,           \* callbacks the last dispatch invoked, in order
  registryCall,      \* the last call of a registry method, and what it returned
  \* the window of the content script and its configuration
  IS_EMBEDED_FRAME,
  mozInnerScreen,    \* (window.mozInnerScreenX, window.mozInnerScreenY)
  TraceDisplay,      \* Config.get("Settings.Gesture.Trace.display")
  CommandDisplay,    \* Config.get("Settings.Gesture.Command.display")
  sentData,          \* data of the messages sent, in the order of sent
  \* the top frame: its window, the messages on their way to it, its MouseGestureView
  topInnerScreen,    \* (mozInnerScreenX, mozInnerScreenY) of the top frame's window
  inbox,             \* messages relayed to the top frame and not yet handled
  Overlay,           \* the overlay is appended to the document
  lastPoint,         \* MouseGestureView: last point of the trace
  traced             \* points the last step passed to MouseGestureView

detectorVars == <<state, preventDefault, timeoutId, mouseEventBuffer, mouseButton,
          suppressionKey, distanceThreshold, timeoutActive,
          preventDefault_1, lastMouseup,
          preventDefault_2, lastMouseup_1, accumulatedDeltaY, mouseButton_1,
          wheelSensitivity,
          attached, attached_1, attached_2, pendingTimeouts, now, buttonsHeld,
          fired, sent, defaultPrevented, propagationStopped, lastCall,
          followUp, lastPress, startsFired, contextmenuSeen, accumulatedBefore,
          suppressedClicks, armedBy>>

pcVars == <<patternConstructor, changeIndicator, points>>

registryVars == <<events, events_1, events_2, invoked, registryCall>>

frameVars == <<IS_EMBEDED_FRAME, mozInnerScreen, TraceDisplay, CommandDisplay, topInnerScreen>>

viewVars == <<sentData, inbox, Overlay, lastPoint, traced>>

vars == <<detectorVars, pcVars, registryVars, frameVars, viewVars>>

cfgVars == <<mouseButton, suppressionKey, distanceThreshold, timeoutActive,
             mouseButton_1, wheelSensitivity>>

\* ------------------------------------------------------------------ events

\* the modifier properties of an event that hold true, as names
ModifierProperties == {"shiftKey", "ctrlKey", "altKey"}

\* positions the pointer takes; with the threshold 10 the second is at the
\* threshold and the third beyond it, counted from the first
Points == {<<0, 0>>, <<10, 0>>, <<10, 10>>}

Thresholds == {10}

Ev(type, isTrusted, buttons, button, mods, p, key, repeat) ==
  [type |-> type, isTrusted |-> isTrusted, buttons |-> buttons, button |-> button,
   mods |-> mods, clientX |-> p[1], clientY |-> p[2], key |-> key, repeat |-> repeat]

NoEvent == Ev("none", FALSE, 0, -1, {}, <<0, 0>>, "", FALSE)

HeldModifiers == {{}, {"shiftKey"}}

\* event.button of the event that reports the change of one button
ButtonOf(buttons) == IF buttons = 1 THEN 0 ELSE IF buttons = 2 THEN 2 ELSE 1

\* Every combination of the fields a handler reads is drawn for the trusted
\* events; a synthesized (untrusted) event is drawn once per button.
PointerDownEvents ==
  { Ev("pointerdown", TRUE, b, ButtonOf(b), {}, p, "", FALSE) : b \in {1, 2, 4}, p \in Points }
  \cup { Ev("pointerdown", TRUE, b, ButtonOf(b), {"shiftKey"}, <<0, 0>>, "", FALSE) : b \in {1, 2, 4} }
  \cup { Ev("pointerdown", FALSE, b, ButtonOf(b), {}, <<0, 0>>, "", FALSE) : b \in {1, 2, 4} }

PointerMoveEvents ==
  { Ev("pointermove", TRUE, b, -1, {}, p, "", FALSE) : b \in {1, 2, 4}, p \in Points }
  \cup { Ev("pointermove", TRUE, b, -1, {}, <<10, 10>>, "", FALSE) : b \in {0, 3} }
  \cup { Ev("pointermove", FALSE, b, -1, {}, <<10, 10>>, "", FALSE) : b \in {1, 2, 4} }

PointerUpEvents ==
  { Ev("pointerup", TRUE, 0, b, {}, p, "", FALSE) : b \in {0, 1, 2}, p \in {<<0, 0>>, <<10, 10>>} }
  \cup { Ev("pointerup", FALSE, 0, b, {}, <<10, 10>>, "", FALSE) : b \in {0, 1, 2} }

KeydownEvents ==
  { Ev("keydown", t, 0, -1, {}, <<0, 0>>, k, r) :
      t \in BOOLEAN, k \in {"Shift", "Control", "a"}, r \in BOOLEAN }

ContextmenuEvents ==
  { Ev("contextmenu", t, 0, b, {}, <<0, 0>>, "", FALSE) :
      t \in BOOLEAN, b \in {0, 2} }

DragstartEvents ==
  { Ev("dragstart", TRUE, b, -1, m, <<0, 0>>, "", FALSE) :
      b \in {1, 2, 4}, m \in HeldModifiers }
  \cup { Ev("dragstart", FALSE, b, -1, {}, <<0, 0>>, "", FALSE) : b \in {1, 2, 4} }

\* no click and no contextmenu event is to follow
NoFollowUp == [type |-> "none", button |-> -1]

\* the mouse events the rocker and wheel controllers listen to
MEv(type, isTrusted, buttons, button, detail, deltaY, timeStamp) ==
  [type |-> type, isTrusted |-> isTrusted, buttons |-> buttons, button |-> button,
   detail |-> detail, deltaY |-> deltaY, timeStamp |-> timeStamp]

\* event.deltaY of the wheel events
Deltas == {-6, -1, 0, 3, 4}

Sensitivities == {5}

\* buttons and button of a mousedown: one button, or left and right together
MousedownEvents ==
  { MEv("mousedown", t, b[1], b[2], 1, 0, now) :
      t \in BOOLEAN, b \in {<<1, 0>>, <<2, 2>>, <<4, 1>>, <<3, 0>>, <<3, 2>>} }

MouseupEvents ==
  { MEv("mouseup", t, 0, b, 1, 0, now) : t \in BOOLEAN, b \in {0, 2} }

ClickEvents ==
  { MEv("click", t, 0, b, d, 0, now) : t \in BOOLEAN, b \in {0, 1}, d \in {0, 1} }

WheelEvents ==
  { MEv("wheel", t, b, -1, 0, d, now) : t \in BOOLEAN, b \in {0, 1, 2}, d \in Deltas }

VisibilitychangeEvent == MEv("visibilitychange", TRUE, 0, -1, 0, 0, now)

\* ------------------------------------------------------------ pure helpers

\* getDistance(x1, y1, x2, y2) > d, for integer arguments: Math.hypot is the
\* square root of the sum of the squares, so the comparison is that of the squares
getDistanceExceeds_AtThreshold(x1, y1, x2, y2, d) ==
  (x2 - x1) * (x2 - x1) + (y2 - y1) * (y2 - y1) >= d * d

getDistanceExceeds(x1, y1, x2, y2, d) ==
  (x2 - x1) * (x2 - x1) + (y2 - y1) * (y2 - y1) > d * d

toSingleButton(pressedButton) ==
  IF pressedButton = 1 THEN 0
  ELSE IF pressedButton = 2 THEN 2
  ELSE IF pressedButton = 4 THEN 1
  ELSE -1

\* event[suppressionKey]
eventHolds(event, property) == property \in event.mods

\* the first identifier window.setTimeout has not handed out and that is not
\* the one stored: identifiers are never reused while they are referred to
setTimeoutId(c) ==
  CHOOSE i \in 1..(Cardinality(c.timeouts) + 2) :
    /\ i \notin c.timeouts
    /\ i # c.timeoutId
    /\ \A j \in 1..(i - 1) : j \in c.timeouts \/ j = c.timeoutId

\* --------------------------------------- MouseGestureController, private

GestureListeners == {"pointermove", "dragstart", "keydown", "pointerup"}

StartListeners == {"pointerdown", "contextmenu"}

Fire(c, name, event, buffer) ==
  [c EXCEPT !.fired = Append(@, [name |-> name, event |-> event, buffer |-> buffer])]

initialize(c, event) ==
  [c EXCEPT !.buffer = Append(@, event),
            !.state = PENDING,
            !.preventDefault = FALSE,
            !.attached = @ \cup GestureListeners,
            !.lastPress = event,
            !.startsFired = 0,
            !.contextmenuSeen = FALSE]

\* update() setting a new timeout without clearing the previous one
armTimeout_KeepPrevious(c) ==
  LET id == setTimeoutId(c)
  IN  IF timeoutActive
        THEN [c EXCEPT !.timeouts = @ \cup {id}, !.timeoutId = id]
        ELSE c

\* update(), "handle timeout": clear the previous timeout, set a new one
armTimeout(c) ==
  LET cleared == IF c.timeoutId # NoTimeout
                   THEN [c EXCEPT !.timeouts = @ \ {c.timeoutId}]
                   ELSE c
      id == setTimeoutId(cleared)
  IN  IF timeoutActive
        THEN [cleared EXCEPT !.timeouts = @ \cup {id}, !.timeoutId = id]
        ELSE c

\* update() whose second branch is an "if", not an "else if": the move that
\* starts the gesture is dispatched as an update too
update_FallThrough(c, event) ==
  LET buffer == Append(c.buffer, event)
      c1 == [c EXCEPT !.buffer = buffer]
      initialEvent == buffer[1]
      latestEvent == buffer[Len(buffer)]
      c2 == IF c.state = PENDING
                 /\ getDistanceExceeds(initialEvent.clientX, initialEvent.clientY,
                                       latestEvent.clientX, latestEvent.clientY,
                                       distanceThreshold)
              THEN [Fire(c1, "start", initialEvent, buffer)
                      EXCEPT !.state = ACTIVE,
                             !.preventDefault = TRUE,
                             !.startsFired = @ + 1]
              ELSE c1
  IN  IF c2.state = ACTIVE
        THEN armTimeout(Fire(c2, "update", event, buffer))
        ELSE c2

\* update() that starts the gesture without arming the suppression
update_KeepFlag(c, event) ==
  LET buffer == Append(c.buffer, event)
      c1 == [c EXCEPT !.buffer = buffer]
      initialEvent == buffer[1]
      latestEvent == buffer[Len(buffer)]
  IN  IF c.state = PENDING
        THEN IF getDistanceExceeds(initialEvent.clientX, initialEvent.clientY,
                                   latestEvent.clientX, latestEvent.clientY,
                                   distanceThreshold)
               THEN [Fire(c1, "start", initialEvent, buffer)
                       EXCEPT !.state = ACTIVE,
                              !.startsFired = @ + 1]
               ELSE c1
      ELSE IF c.state = ACTIVE
        THEN armTimeout(Fire(c1, "update", event, buffer))
      ELSE c1

update(c, event) ==
  LET buffer == Append(c.buffer, event)
      c1 == [c EXCEPT !.buffer = buffer]
      initialEvent == buffer[1]
      latestEvent == buffer[Len(buffer)]
  IN  IF c.state = PENDING
        THEN IF getDistanceExceeds(initialEvent.clientX, initialEvent.clientY,
                                   latestEvent.clientX, latestEvent.clientY,
                                   distanceThreshold)
               THEN [Fire(c1, "start", initialEvent, buffer)
                       EXCEPT !.state = ACTIVE,
                              !.preventDefault = TRUE,
                              !.startsFired = @ + 1]
               ELSE c1
      ELSE IF c.state = ACTIVE
        THEN armTimeout(Fire(c1, "update", event, buffer))
      ELSE c1

\* reset() that leaves the keydown listener attached
reset_KeepKeydown(c) ==
  [c EXCEPT !.attached = @ \ {"pointermove", "pointerup", "dragstart"},
            !.buffer = <<>>,
            !.state = PASSIVE,
            !.timeouts = IF c.timeoutId # NoTimeout THEN @ \ {c.timeoutId} ELSE @,
            !.timeoutId = NoTimeout]

\* reset() that leaves a pending timeout alone
reset_KeepTimeout(c) ==
  [c EXCEPT !.attached = @ \ GestureListeners,
            !.buffer = <<>>,
            !.state = PASSIVE]

reset(c) ==
  [c EXCEPT !.attached = @ \ GestureListeners,
            !.buffer = <<>>,
            !.state = PASSIVE,
            !.timeouts = IF c.timeoutId # NoTimeout THEN @ \ {c.timeoutId} ELSE @,
            !.timeoutId = NoTimeout]

\* abort() that resets the controller at once
abort_ThenReset(c) ==
  reset([Fire(c, "abort", NoEvent, c.buffer) EXCEPT !.state = ABORTED])

abort(c) ==
  [Fire(c, "abort", NoEvent, c.buffer) EXCEPT !.state = ABORTED]

\* terminate() that dispatches 'end' whatever the state
terminate_EndInAnyState(c, event) ==
  LET buffer == Append(c.buffer, event)
  IN  reset(Fire([c EXCEPT !.buffer = buffer], "end", event, buffer))

terminate(c, event) ==
  LET buffer == Append(c.buffer, event)
      c1 == [c EXCEPT !.buffer = buffer]
      c2 == IF c.state = ACTIVE THEN Fire(c1, "end", event, buffer) ELSE c1
  IN  reset(c2)

\* handleMousedown() without the isTrusted test
handleMousedown_Untrusted(c, event) ==
  IF event.buttons = mouseButton
       /\ (suppressionKey = "" \/ ~eventHolds(event, suppressionKey))
    THEN initialize(c, event)
    ELSE c

handleMousedown(c, event) ==
  IF event.isTrusted /\ event.buttons = mouseButton
       /\ (suppressionKey = "" \/ ~eventHolds(event, suppressionKey))
    THEN LET c1 == initialize(c, event)
         IN  IF mouseButton = MIDDLE_MOUSE_BUTTON
               THEN [c1 EXCEPT !.prevented = TRUE]
               ELSE c1
    ELSE c

handleMousemove(c, event) ==
  IF event.isTrusted /\ event.buttons = mouseButton
    THEN update(c, event)
    ELSE c

handleMouseup(c, event) ==
  IF event.isTrusted /\ event.button = toSingleButton(mouseButton)
    THEN terminate(c, event)
    ELSE c

\* handleContextmenu that leaves the flag as it finds it
handleContextmenu_NoRearm(c, event) ==
  LET c1 == IF event.isTrusted /\ c.preventDefault
                 /\ event.button = toSingleButton(mouseButton)
                 /\ mouseButton = RIGHT_MOUSE_BUTTON
              THEN [c EXCEPT !.stopped = TRUE, !.prevented = TRUE]
              ELSE c
  IN  [c1 EXCEPT !.contextmenuSeen = TRUE]

\* handleContextmenu that suppresses whatever the flag
handleContextmenu_Always(c, event) ==
  LET c1 == IF event.isTrusted
                 /\ event.button = toSingleButton(mouseButton)
                 /\ mouseButton = RIGHT_MOUSE_BUTTON
              THEN [c EXCEPT !.stopped = TRUE, !.prevented = TRUE]
              ELSE c
  IN  [c1 EXCEPT !.preventDefault = TRUE, !.contextmenuSeen = TRUE]

handleContextmenu(c, event) ==
  LET c1 == IF event.isTrusted /\ c.preventDefault
                 /\ event.button = toSingleButton(mouseButton)
                 /\ mouseButton = RIGHT_MOUSE_BUTTON
              THEN [c EXCEPT !.stopped = TRUE, !.prevented = TRUE]
              ELSE c
  IN  [c1 EXCEPT !.preventDefault = TRUE, !.contextmenuSeen = TRUE]

pressedKey(key) ==
  IF key = "Shift" THEN "shiftKey"
  ELSE IF key = "Control" THEN "ctrlKey"
  ELSE IF key = "Alt" THEN "altKey"
  ELSE "undefined"

\* handleKeydown() without the filter for repeated keydown events
handleKeydown_Repeat(c, event) ==
  IF event.isTrusted /\ suppressionKey # "" /\ pressedKey(event.key) = suppressionKey
    THEN [abort(c) EXCEPT !.prevented = TRUE]
    ELSE c

handleKeydown(c, event) ==
  IF event.isTrusted /\ ~event.repeat /\ suppressionKey # ""
       /\ pressedKey(event.key) = suppressionKey
    THEN [abort(c) EXCEPT !.prevented = TRUE]
    ELSE c

handleDragstart(c, event) ==
  IF event.isTrusted /\ event.buttons = mouseButton
       /\ (suppressionKey = "" \/ ~eventHolds(event, suppressionKey))
    THEN [c EXCEPT !.prevented = TRUE]
    ELSE c

\* ---------------------------------------- MouseGestureController, public

enable(c) == [c EXCEPT !.attached = @ \cup StartListeners]

disable(c) == reset([c EXCEPT !.attached = @ \ StartListeners])

cancel(c) == reset(c)

\* ------------------------------------------------ content script (glue)

\* subjects of the messages the background script passes on to the top frame
ViewSubjects == {"mouseGestureViewInitialize", "mouseGestureViewUpdateGestureTrace",
                 "mouseGestureViewTerminate"}

\* browser.runtime.sendMessage({subject, data})
sendMessage(c, subject, data) ==
  [c EXCEPT !.sent = Append(@, subject),
            !.sentData = Append(@, data),
            !.inbox = IF subject \in ViewSubjects
                        THEN Append(@, [subject |-> subject, data |-> data])
                        ELSE @]

\* MouseGestureView.initialize(x, y), in a document that takes the overlay
initialize_1(c, x, y) == [c EXCEPT !.Overlay = TRUE, !.lastPoint = <<x, y>>]

\* MouseGestureView.updateGestureTrace(points)
updateGestureTrace(c, trace) ==
  [c EXCEPT !.lastPoint = IF trace = <<>> THEN @ ELSE trace[Len(trace)],
            !.traced = @ \o trace]

\* MouseGestureView.terminate()
terminate_1(c) == [c EXCEPT !.Overlay = FALSE]

\* the target data of events without a modelled position
NoData == <<>>

\* the listener of rockerleft, rockerright, wheelup and wheeldown; the view
\* it terminates is the one of its own frame
handleRockerAndWheelEvents(c, subject, event) ==
  LET c1 == cancel(c)
      c2 == IF IS_EMBEDED_FRAME THEN c1 ELSE terminate_1(c1)
  IN  sendMessage(c2, subject, NoData)

\* callback(event) of a callback of events$1 or events$2: the arrow function
\* the content script registered sends its subject, any other is only recorded
callGesture(c, callback, event) ==
  LET c1 == [c EXCEPT !.invoked = Append(@, callback)]
  IN  IF callback \in {"rockerLeft", "rockerRight", "wheelUp", "wheelDown"}
        THEN handleRockerAndWheelEvents(c1, callback, event)
        ELSE c1

RECURSIVE forEachGesture(_, _, _)
forEachGesture(c, callbacks, event) ==
  IF callbacks = <<>>
    THEN c
    ELSE forEachGesture(callGesture(c, Head(callbacks), event), Tail(callbacks), event)

\* events$1[name].forEach(callback => callback(event)), and events$2 likewise;
\* subject names the callback the content script registers for the event
FireGesture(c, name, subject, event) ==
  forEachGesture(Fire(c, name, event, <<>>),
                 IF name \in DOMAIN events_1 THEN events_1[name] ELSE events_2[name],
                 event)

\* --------------------------------------------- RockerGestureController

RockerListeners == {"mousedown", "mouseup", "click", "contextmenu", "visibilitychange"}

enable_1(c) == [c EXCEPT !.attached_1 = RockerListeners]

disable_1(c) == [c EXCEPT !.preventDefault_1 = TRUE, !.attached_1 = {}]

\* handleMousedown$1 firing the event of the other button
handleMousedown_1_Swapped(c, event) ==
  IF event.isTrusted
    THEN LET c1 == [c EXCEPT !.preventDefault_1 = FALSE]
         IN  IF event.buttons = LEFT_MOUSE_BUTTON + RIGHT_MOUSE_BUTTON
                  /\ (event.button = toSingleButton(LEFT_MOUSE_BUTTON)
                        \/ event.button = toSingleButton(RIGHT_MOUSE_BUTTON))
               THEN LET c2 == IF event.button = toSingleButton(RIGHT_MOUSE_BUTTON)
                                THEN FireGesture(c1, "rockerleft", "rockerLeft", event)
                                ELSE FireGesture(c1, "rockerright", "rockerRight", event)
                    IN  [c2 EXCEPT !.stopped = TRUE, !.prevented = TRUE,
                                   !.preventDefault_1 = TRUE]
               ELSE c1
    ELSE c

\* handleMousedown$1 leaving the suppression flag alone on an ordinary press
handleMousedown_1_StayArmed(c, event) ==
  IF event.isTrusted
    THEN IF event.buttons = LEFT_MOUSE_BUTTON + RIGHT_MOUSE_BUTTON
              /\ (event.button = toSingleButton(LEFT_MOUSE_BUTTON)
                    \/ event.button = toSingleButton(RIGHT_MOUSE_BUTTON))
           THEN LET c2 == IF event.button = toSingleButton(LEFT_MOUSE_BUTTON)
                            THEN FireGesture(c, "rockerleft", "rockerLeft", event)
                            ELSE FireGesture(c, "rockerright", "rockerRight", event)
                IN  [c2 EXCEPT !.stopped = TRUE, !.prevented = TRUE,
                               !.preventDefault_1 = TRUE]
           ELSE c
    ELSE c

handleMousedown_1(c, event) ==
  IF event.isTrusted
    THEN LET c1 == [c EXCEPT !.preventDefault_1 = FALSE]
         IN  IF event.buttons = LEFT_MOUSE_BUTTON + RIGHT_MOUSE_BUTTON
                  /\ (event.button = toSingleButton(LEFT_MOUSE_BUTTON)
                        \/ event.button = toSingleButton(RIGHT_MOUSE_BUTTON))
               THEN LET c2 == IF event.button = toSingleButton(LEFT_MOUSE_BUTTON)
                                THEN FireGesture(c1, "rockerleft", "rockerLeft", event)
                              ELSE IF event.button = toSingleButton(RIGHT_MOUSE_BUTTON)
                                THEN FireGesture(c1, "rockerright", "rockerRight", event)
                              ELSE c1
                    IN  [c2 EXCEPT !.stopped = TRUE, !.prevented = TRUE,
                                   !.preventDefault_1 = TRUE]
               ELSE c1
    ELSE c

handleMouseup_1(c, event) == [c EXCEPT !.lastMouseup = event.timeStamp]

handleVisibilitychange(c) == [c EXCEPT !.preventDefault_1 = TRUE]

handleContextmenu_1(c, event) ==
  IF event.isTrusted /\ c.preventDefault_1
       /\ event.button = toSingleButton(RIGHT_MOUSE_BUTTON)
    THEN [c EXCEPT !.stopped = TRUE, !.prevented = TRUE]
    ELSE c

\* handleClick without the comparison of the timestamps
handleClick_AnyTimestamp(c, event) ==
  IF event.isTrusted /\ c.preventDefault_1
       /\ event.button = toSingleButton(LEFT_MOUSE_BUTTON)
       /\ event.detail # 0
    THEN [c EXCEPT !.stopped = TRUE, !.prevented = TRUE]
    ELSE c

handleClick(c, event) ==
  IF event.isTrusted /\ c.preventDefault_1
       /\ event.button = toSingleButton(LEFT_MOUSE_BUTTON)
       /\ event.detail # 0 /\ event.timeStamp = c.lastMouseup
    THEN [c EXCEPT !.stopped = TRUE, !.prevented = TRUE]
    ELSE c

\* ---------------------------------------------- WheelGestureController

WheelListeners ==
  {"wheel", "mousedown", "mouseup", "click", "contextmenu", "visibilitychange"}

enable_2(c) == [c EXCEPT !.attached_2 = WheelListeners]

disable_2(c) == [c EXCEPT !.preventDefault_2 = TRUE, !.attached_2 = {}]

\* handleMousedown$2 without the reset of the accumulated deltaY
handleMousedown_2_KeepAccumulated(c, event) ==
  IF event.isTrusted
    THEN [c EXCEPT !.preventDefault_2 = FALSE,
                   !.prevented = @ \/ (mouseButton_1 = MIDDLE_MOUSE_BUTTON
                                         /\ event.buttons = MIDDLE_MOUSE_BUTTON)]
    ELSE c

handleMousedown_2(c, event) ==
  IF event.isTrusted
    THEN [c EXCEPT !.preventDefault_2 = FALSE,
                   !.accumulatedDeltaY = 0,
                   !.prevented = @ \/ (mouseButton_1 = MIDDLE_MOUSE_BUTTON
                                         /\ event.buttons = MIDDLE_MOUSE_BUTTON)]
    ELSE c

Abs(n) == IF n < 0 THEN -n ELSE n

\* handleWheel without the reset of the accumulator after a gesture
handleWheel_KeepAccumulated(c, event) ==
  IF event.isTrusted /\ event.buttons = mouseButton_1 /\ event.deltaY # 0
    THEN LET flipped == (c.accumulatedDeltaY < 0) # (event.deltaY < 0)
             sum == (IF flipped THEN 0 ELSE c.accumulatedDeltaY) + event.deltaY
             c1 == [c EXCEPT !.accumulatedDeltaY = sum]
             c2 == IF Abs(sum) >= wheelSensitivity
                     THEN IF sum < 0
                            THEN FireGesture(c1, "wheelup", "wheelUp", event)
                            ELSE FireGesture(c1, "wheeldown", "wheelDown", event)
                     ELSE c1
         IN  [c2 EXCEPT !.stopped = TRUE, !.prevented = TRUE, !.preventDefault_2 = TRUE]
    ELSE c

\* handleWheel adding the delta before the test of the sign
handleWheel_AddThenReset(c, event) ==
  IF event.isTrusted /\ event.buttons = mouseButton_1 /\ event.deltaY # 0
    THEN LET flipped == (c.accumulatedDeltaY < 0) # (event.deltaY < 0)
             sum == IF flipped THEN 0 ELSE c.accumulatedDeltaY + event.deltaY
             c1 == [c EXCEPT !.accumulatedDeltaY = sum]
             c2 == IF Abs(sum) >= wheelSensitivity
                     THEN [(IF sum < 0
                              THEN FireGesture(c1, "wheelup", "wheelUp", event)
                              ELSE FireGesture(c1, "wheeldown", "wheelDown", event))
                             EXCEPT !.accumulatedDeltaY = 0]
                     ELSE c1
         IN  [c2 EXCEPT !.stopped = TRUE, !.prevented = TRUE, !.preventDefault_2 = TRUE]
    ELSE c

\* handleWheel that arms the suppression only when a gesture fires
handleWheel_ArmOnGesture(c, event) ==
  IF event.isTrusted /\ event.buttons = mouseButton_1 /\ event.deltaY # 0
    THEN LET flipped == (c.accumulatedDeltaY < 0) # (event.deltaY < 0)
             sum == (IF flipped THEN 0 ELSE c.accumulatedDeltaY) + event.deltaY
             c1 == [c EXCEPT !.accumulatedDeltaY = sum]
             c2 == IF Abs(sum) >= wheelSensitivity
                     THEN [(IF sum < 0
                              THEN FireGesture(c1, "wheelup", "wheelUp", event)
                            ELSE IF sum > 0
                              THEN FireGesture(c1, "wheeldown", "wheelDown", event)
                            ELSE c1)
                             EXCEPT !.accumulatedDeltaY = 0, !.preventDefault_2 = TRUE]
                     ELSE c1
         IN  [c2 EXCEPT !.stopped = TRUE, !.prevented = TRUE]
    ELSE c

handleWheel(c, event) ==
  IF event.isTrusted /\ event.buttons = mouseButton_1 /\ event.deltaY # 0
    THEN LET flipped == (c.accumulatedDeltaY < 0) # (event.deltaY < 0)
             sum == (IF flipped THEN 0 ELSE c.accumulatedDeltaY) + event.deltaY
             c1 == [c EXCEPT !.accumulatedDeltaY = sum]
             c2 == IF Abs(sum) >= wheelSensitivity
                     THEN [(IF sum < 0
                              THEN FireGesture(c1, "wheelup", "wheelUp", event)
                            ELSE IF sum > 0
                              THEN FireGesture(c1, "wheeldown", "wheelDown", event)
                            ELSE c1)
                             EXCEPT !.accumulatedDeltaY = 0]
                     ELSE c1
         IN  [c2 EXCEPT !.stopped = TRUE, !.prevented = TRUE, !.preventDefault_2 = TRUE]
    ELSE c

handleMouseup_2(c, event) == [c EXCEPT !.lastMouseup_1 = event.timeStamp]

handleVisibilitychange_1(c) ==
  [c EXCEPT !.preventDefault_2 = TRUE, !.accumulatedDeltaY = 0]

handleContextmenu_2(c, event) ==
  IF event.isTrusted /\ c.preventDefault_2
       /\ event.button = toSingleButton(mouseButton_1)
       /\ mouseButton_1 = RIGHT_MOUSE_BUTTON
    THEN [c EXCEPT !.stopped = TRUE, !.prevented = TRUE]
    ELSE c

handleClick_1(c, event) ==
  IF event.isTrusted /\ c.preventDefault_2
       /\ event.button = toSingleButton(mouseButton_1)
       /\ (mouseButton_1 = LEFT_MOUSE_BUTTON \/ mouseButton_1 = MIDDLE_MOUSE_BUTTON)
       /\ event.detail # 0 /\ event.timeStamp = c.lastMouseup_1
    THEN [c EXCEPT !.stopped = TRUE, !.prevented = TRUE]
    ELSE c

\* --------------------------------------------------- PatternConstructor

\* null, for the fields that hold a point or a vector
Null == <<>>

\* tan(0.12 * pi), the tangent of the angle the difference threshold stands
\* for, in units of 1 / TanScale
TanDifferenceThreshold == 39593

TanScale == 100000

\* new PatternConstructor(0.12, 10)
PatternDistanceThreshold == 10

\* vectorDistance > this.distanceThreshold, on the squares
vectorDistanceExceeds(VX, VY) ==
  VX * VX + VY * VY > PatternDistanceThreshold * PatternDistanceThreshold

\* the difference of the directions taken to exceed the threshold always
vectorDirectionDifferenceExceeds_AnyVector(V1X, V1Y, V2X, V2Y) == TRUE

\* Math.abs(vectorDirectionDifference(V1X, V1Y, V2X, V2Y)) > 0.12: the
\* difference of the two angles, brought into (-pi, pi] and divided by pi, has
\* as magnitude the angle between the vectors over pi; the angle exceeds
\* 0.12 * pi iff the vectors do not point into the same half plane or the
\* tangent of the angle exceeds tan(0.12 * pi).
vectorDirectionDifferenceExceeds(V1X, V1Y, V2X, V2Y) ==
  LET dot == V1X * V2X + V1Y * V2Y
      cross == V1X * V2Y - V1Y * V2X
  IN  \/ dot <= 0
      \/ (IF cross < 0 THEN -cross ELSE cross) * TanScale > TanDifferenceThreshold * dot

\* the fields after the constructor
constructor ==
  [lastExtractedPoint |-> Null, previousPoint |-> Null, lastPoint |-> Null,
   previousVecto |-> Null, extracedVectors |-> <<>>]

\* clear() leaving the previous vector in place
clear_KeepPreviousVector(this) ==
  [this EXCEPT !.extracedVectors = <<>>,
               !.lastExtractedPoint = Null,
               !.previousPoint = Null,
               !.lastPoint = Null]

clear(this) ==
  [this EXCEPT !.extracedVectors = <<>>,
               !.lastExtractedPoint = Null,
               !.previousPoint = Null,
               !.lastPoint = Null,
               !.previousVecto = Null]

\* addPoint moving the previous point for a displacement within the threshold
addPoint_MoveAnchor(this, x, y) ==
  LET first == this.previousPoint = Null
      newVX == x - this.previousPoint[1]
      newVY == y - this.previousPoint[2]
  IN  IF first
        THEN [this |-> [this EXCEPT !.lastExtractedPoint = <<x, y>>,
                                    !.previousPoint = <<x, y>>,
                                    !.lastPoint = <<x, y>>],
              changeIndicator |-> 0]
      ELSE IF ~vectorDistanceExceeds(newVX, newVY)
        THEN [this |-> [this EXCEPT !.previousPoint = <<x, y>>, !.lastPoint = <<x, y>>],
              changeIndicator |-> 0]
      ELSE IF this.previousVecto = Null
        THEN [this |-> [this EXCEPT !.previousVecto = <<newVX, newVY>>,
                                    !.previousPoint = <<x, y>>,
                                    !.lastPoint = <<x, y>>],
              changeIndicator |-> 1]
      ELSE IF vectorDirectionDifferenceExceeds(this.previousVecto[1], this.previousVecto[2],
                                               newVX, newVY)
        THEN [this |-> [this EXCEPT
                          !.extracedVectors =
                            Append(@, <<this.previousPoint[1] - this.lastExtractedPoint[1],
                                        this.previousPoint[2] - this.lastExtractedPoint[2]>>),
                          !.previousVecto = <<newVX, newVY>>,
                          !.lastExtractedPoint = this.previousPoint,
                          !.previousPoint = <<x, y>>,
                          !.lastPoint = <<x, y>>],
              changeIndicator |-> 2]
      ELSE [this |-> [this EXCEPT !.previousPoint = <<x, y>>, !.lastPoint = <<x, y>>],
            changeIndicator |-> 1]

\* addPoint incrementing the change indicator once for a segment
addPoint_SingleIncrement(this, x, y) ==
  LET first == this.previousPoint = Null
      newVX == x - this.previousPoint[1]
      newVY == y - this.previousPoint[2]
  IN  IF first
        THEN [this |-> [this EXCEPT !.lastExtractedPoint = <<x, y>>,
                                    !.previousPoint = <<x, y>>,
                                    !.lastPoint = <<x, y>>],
              changeIndicator |-> 0]
      ELSE IF ~vectorDistanceExceeds(newVX, newVY)
        THEN [this |-> [this EXCEPT !.lastPoint = <<x, y>>], changeIndicator |-> 0]
      ELSE IF this.previousVecto = Null
        THEN [this |-> [this EXCEPT !.previousVecto = <<newVX, newVY>>,
                                    !.previousPoint = <<x, y>>,
                                    !.lastPoint = <<x, y>>],
              changeIndicator |-> 1]
      ELSE IF vectorDirectionDifferenceExceeds(this.previousVecto[1], this.previousVecto[2],
                                               newVX, newVY)
        THEN [this |-> [this EXCEPT
                          !.extracedVectors =
                            Append(@, <<this.previousPoint[1] - this.lastExtractedPoint[1],
                                        this.previousPoint[2] - this.lastExtractedPoint[2]>>),
                          !.previousVecto = <<newVX, newVY>>,
                          !.lastExtractedPoint = this.previousPoint,
                          !.previousPoint = <<x, y>>,
                          !.lastPoint = <<x, y>>],
              changeIndicator |-> 1]
      ELSE [this |-> [this EXCEPT !.previousPoint = <<x, y>>, !.lastPoint = <<x, y>>],
            changeIndicator |-> 1]

\* addPoint replacing the extracted vectors by the new one
addPoint_Rewrite(this, x, y) ==
  LET first == this.previousPoint = Null
      newVX == x - this.previousPoint[1]
      newVY == y - this.previousPoint[2]
  IN  IF first
        THEN [this |-> [this EXCEPT !.lastExtractedPoint = <<x, y>>,
                                    !.previousPoint = <<x, y>>,
                                    !.lastPoint = <<x, y>>],
              changeIndicator |-> 0]
      ELSE IF ~vectorDistanceExceeds(newVX, newVY)
        THEN [this |-> [this EXCEPT !.lastPoint = <<x, y>>], changeIndicator |-> 0]
      ELSE IF this.previousVecto = Null
        THEN [this |-> [this EXCEPT !.previousVecto = <<newVX, newVY>>,
                                    !.previousPoint = <<x, y>>,
                                    !.lastPoint = <<x, y>>],
              changeIndicator |-> 1]
      ELSE IF vectorDirectionDifferenceExceeds(this.previousVecto[1], this.previousVecto[2],
                                               newVX, newVY)
        THEN [this |-> [this EXCEPT
                          !.extracedVectors =
                            Append(<<>>, <<this.previousPoint[1] - this.lastExtractedPoint[1],
                                        this.previousPoint[2] - this.lastExtractedPoint[2]>>),
                          !.previousVecto = <<newVX, newVY>>,
                          !.lastExtractedPoint = this.previousPoint,
                          !.previousPoint = <<x, y>>,
                          !.lastPoint = <<x, y>>],
              changeIndicator |-> 2]
      ELSE [this |-> [this EXCEPT !.previousPoint = <<x, y>>, !.lastPoint = <<x, y>>],
            changeIndicator |-> 1]

\* addPoint extracting the segment up to the new point, not the previous one
addPoint_ExtractAtNewPoint(this, x, y) ==
  LET first == this.previousPoint = Null
      newVX == x - this.previousPoint[1]
      newVY == y - this.previousPoint[2]
  IN  IF first
        THEN [this |-> [this EXCEPT !.lastExtractedPoint = <<x, y>>,
                                    !.previousPoint = <<x, y>>,
                                    !.lastPoint = <<x, y>>],
              changeIndicator |-> 0]
      ELSE IF ~vectorDistanceExceeds(newVX, newVY)
        THEN [this |-> [this EXCEPT !.lastPoint = <<x, y>>], changeIndicator |-> 0]
      ELSE IF this.previousVecto = Null
        THEN [this |-> [this EXCEPT !.previousVecto = <<newVX, newVY>>,
                                    !.previousPoint = <<x, y>>,
                                    !.lastPoint = <<x, y>>],
              changeIndicator |-> 1]
      ELSE IF vectorDirectionDifferenceExceeds(this.previousVecto[1], this.previousVecto[2],
                                               newVX, newVY)
        THEN [this |-> [this EXCEPT
                          !.extracedVectors =
                            Append(@, <<x - this.lastExtractedPoint[1],
                                        y - this.lastExtractedPoint[2]>>),
                          !.previousVecto = <<newVX, newVY>>,
                          !.lastExtractedPoint = <<x, y>>,
                          !.previousPoint = <<x, y>>,
                          !.lastPoint = <<x, y>>],
              changeIndicator |-> 2]
      ELSE [this |-> [this EXCEPT !.previousPoint = <<x, y>>, !.lastPoint = <<x, y>>],
            changeIndicator |-> 1]

addPoint(this, x, y) ==
  LET first == this.previousPoint = Null
      newVX == x - this.previousPoint[1]
      newVY == y - this.previousPoint[2]
  IN  IF first
        THEN [this |-> [this EXCEPT !.lastExtractedPoint = <<x, y>>,
                                    !.previousPoint = <<x, y>>,
                                    !.lastPoint = <<x, y>>],
              changeIndicator |-> 0]
      ELSE IF ~vectorDistanceExceeds(newVX, newVY)
        THEN [this |-> [this EXCEPT !.lastPoint = <<x, y>>], changeIndicator |-> 0]
      ELSE IF this.previousVecto = Null
        THEN [this |-> [this EXCEPT !.previousVecto = <<newVX, newVY>>,
                                    !.previousPoint = <<x, y>>,
                                    !.lastPoint = <<x, y>>],
              changeIndicator |-> 1]
      ELSE IF vectorDirectionDifferenceExceeds(this.previousVecto[1], this.previousVecto[2],
                                               newVX, newVY)
        THEN [this |-> [this EXCEPT
                          !.extracedVectors =
                            Append(@, <<this.previousPoint[1] - this.lastExtractedPoint[1],
                                        this.previousPoint[2] - this.lastExtractedPoint[2]>>),
                          !.previousVecto = <<newVX, newVY>>,
                          !.lastExtractedPoint = this.previousPoint,
                          !.previousPoint = <<x, y>>,
                          !.lastPoint = <<x, y>>],
              changeIndicator |-> 2]
      ELSE [this |-> [this EXCEPT !.previousPoint = <<x, y>>, !.lastPoint = <<x, y>>],
            changeIndicator |-> 1]

\* getPattern without the trailing vector
getPattern_NoLastVector(this) ==
  IF this.lastPoint = Null \/ this.lastExtractedPoint = Null
    THEN <<>>
    ELSE this.extracedVectors

getPattern(this) ==
  IF this.lastPoint = Null \/ this.lastExtractedPoint = Null
    THEN <<>>
    ELSE Append(this.extracedVectors,
                <<this.lastPoint[1] - this.lastExtractedPoint[1],
                  this.lastPoint[2] - this.lastExtractedPoint[2]>>)

\* ------------------------------ content script, drag gesture listeners

\* (event.clientX, event.clientY)
Client(event) == <<event.clientX, event.clientY>>

\* the position in css screen coordinates: client + window.mozInnerScreenX/Y
Screen(event) == <<event.clientX + mozInnerScreen[1], event.clientY + mozInnerScreen[2]>>

\* the events of event.getCoalescedEvents(): the sub-samples the browser
\* folded into the event, none for an event it reports none for
getCoalescedEvents(event) ==
  IF "coalesced" \in DOMAIN event THEN event.coalesced ELSE <<>>

RECURSIVE allCoalescedEvents(_)
allCoalescedEvents(buffer) ==
  IF buffer = <<>>
    THEN <<>>
    ELSE getCoalescedEvents(Head(buffer)) \o allCoalescedEvents(Tail(buffer))

RECURSIVE map(_, _)
map(coalescedEvents, screen) ==
  IF coalescedEvents = <<>>
    THEN <<>>
    ELSE <<IF screen THEN Screen(Head(coalescedEvents)) ELSE Client(Head(coalescedEvents))>>
           \o map(Tail(coalescedEvents), screen)

\* for (const event of coalescedEvents) patternConstructor.addPoint(...), and
\* for the update listener the gestureChange message on a pattern change
RECURSIVE buildPattern(_, _, _)
buildPattern(c, coalescedEvents, notify) ==
  IF coalescedEvents = <<>>
    THEN c
    ELSE LET event == Head(coalescedEvents)
             r == addPoint(c.patternConstructor, event.clientX, event.clientY)
             c1 == [c EXCEPT !.patternConstructor = r.this,
                             !.changeIndicator = r.changeIndicator,
                             !.points = Append(@, Client(event))]
             c2 == IF notify /\ r.changeIndicator # 0 /\ CommandDisplay
                     THEN sendMessage(c1, "gestureChange", getPattern(r.this))
                     ELSE c1
         IN  buildPattern(c2, Tail(coalescedEvents), notify)

\* the gesture trace update of the start and of the update listener
traceUpdate(c, coalescedEvents) ==
  IF ~TraceDisplay
    THEN c
    ELSE IF ~IS_EMBEDED_FRAME
           THEN updateGestureTrace(c, map(coalescedEvents, FALSE))
           ELSE sendMessage(c, "mouseGestureViewUpdateGestureTrace",
                            [points |-> map(coalescedEvents, TRUE)])

\* close the mouse gesture interface, in the abort and in the end listener
viewTerminate(c) ==
  IF ~(TraceDisplay \/ CommandDisplay)
    THEN c
    ELSE IF ~IS_EMBEDED_FRAME
           THEN terminate_1(c)
           ELSE sendMessage(c, "mouseGestureViewTerminate", NoData)

RECURSIVE eachCoalescedEvents(_)
\* the coalesced events of every buffered event, or the event itself
eachCoalescedEvents(buffer) ==
  IF buffer = <<>>
    THEN <<>>
    ELSE (IF getCoalescedEvents(Head(buffer)) = <<>>
            THEN <<Head(buffer)>>
            ELSE getCoalescedEvents(Head(buffer)))
           \o eachCoalescedEvents(Tail(buffer))

\* the start listener falling back to the event for each buffered event
startListener_FallbackPerEvent(c, event, buffer) ==
  LET coalescedEvents == eachCoalescedEvents(buffer)
      c1 == buildPattern(c, coalescedEvents, FALSE)
  IN  IF ~(TraceDisplay \/ CommandDisplay)
        THEN c1
        ELSE traceUpdate(IF ~IS_EMBEDED_FRAME
                           THEN initialize_1(c1, event.clientX, event.clientY)
                           ELSE sendMessage(c1, "mouseGestureViewInitialize",
                                            [x |-> Screen(event)[1], y |-> Screen(event)[2]]),
                         coalescedEvents)

\* MouseGestureController.addEventListener("start", (event, events) => ...)
startListener(c, event, buffer) ==
  LET coalesced == allCoalescedEvents(buffer)
      coalescedEvents == IF coalesced = <<>> THEN buffer ELSE coalesced
      c1 == buildPattern(c, coalescedEvents, FALSE)
  IN  IF ~(TraceDisplay \/ CommandDisplay)
        THEN c1
        ELSE traceUpdate(IF ~IS_EMBEDED_FRAME
                           THEN initialize_1(c1, event.clientX, event.clientY)
                           ELSE sendMessage(c1, "mouseGestureViewInitialize",
                                            [x |-> Screen(event)[1], y |-> Screen(event)[2]]),
                         coalescedEvents)

\* MouseGestureController.addEventListener("update", (event, events) => ...)
updateListener(c, event, buffer) ==
  LET coalesced == getCoalescedEvents(event)
      coalescedEvents == IF coalesced = <<>> THEN <<event>> ELSE coalesced
  IN  traceUpdate(buildPattern(c, coalescedEvents, TRUE), coalescedEvents)

\* MouseGestureController.addEventListener("abort", (events) => ...)
abortListener(c, buffer) ==
  LET c1 == viewTerminate(c)
  IN  [c1 EXCEPT !.patternConstructor = clear(@), !.points = <<>>]

\* the end listener sending the position in client coordinates
endListener_ClientPosition(c, event, buffer) ==
  LET data == [pattern |-> getPattern(c.patternConstructor), mousePosition |-> Client(event)]
      c1 == sendMessage(c, "gestureEnd", data)
  IN  viewTerminate([c1 EXCEPT !.patternConstructor = clear(@), !.points = <<>>])

\* MouseGestureController.addEventListener("end", (event, events) => ...)
endListener(c, event, buffer) ==
  LET data == [pattern |-> getPattern(c.patternConstructor), mousePosition |-> Screen(event)]
      c1 == sendMessage(c, "gestureEnd", data)
  IN  viewTerminate([c1 EXCEPT !.patternConstructor = clear(@), !.points = <<>>])

\* the main frame's listener passing the points on as they arrive
onMessage_ScreenPoints(c, message) ==
  CASE message.subject = "mouseGestureViewInitialize" ->
         initialize_1(c, message.data.x, message.data.y)
    [] message.subject = "mouseGestureViewUpdateGestureTrace" ->
         updateGestureTrace(c, message.data.points)
    [] message.subject = "mouseGestureViewTerminate" -> terminate_1(c)
    [] OTHER -> c

\* browser.runtime.onMessage listener of the main frame
onMessage(c, message) ==
  CASE message.subject = "mouseGestureViewInitialize" ->
         initialize_1(c, message.data.x - topInnerScreen[1], message.data.y - topInnerScreen[2])
    [] message.subject = "mouseGestureViewUpdateGestureTrace" ->
         updateGestureTrace(c, [i \in DOMAIN message.data.points |->
                                  <<message.data.points[i][1] - topInnerScreen[1],
                                    message.data.points[i][2] - topInnerScreen[2]>>])
    [] message.subject = "mouseGestureViewTerminate" -> terminate_1(c)
    [] OTHER -> c

\* callback(...) of a callback of events: the listeners of the content script
\* act, any other callback is only recorded
invoke(c, callback, f) ==
  LET c1 == [c EXCEPT !.invoked = Append(@, callback)]
  IN  CASE callback = "startListener" -> startListener(c1, f.event, f.buffer)
        [] callback = "updateListener" -> updateListener(c1, f.event, f.buffer)
        [] callback = "abortListener" -> abortListener(c1, f.buffer)
        [] callback = "endListener" -> endListener(c1, f.event, f.buffer)
        [] OTHER -> c1

RECURSIVE forEach(_, _, _)
forEach(c, callbacks, f) ==
  IF callbacks = <<>> THEN c ELSE forEach(invoke(c, Head(callbacks), f), Tail(callbacks), f)

\* events[name].forEach(callback => callback(...)) for the events the handler
\* fired, in the order it fired them; the callbacks read and write nothing of
\* the controller, so that they commute with the rest of the handler
RECURSIVE Callbacks(_, _)
Callbacks(c, f) ==
  IF f = <<>>
    THEN c
    ELSE Callbacks(IF Head(f).name \in DOMAIN events
                     THEN forEach(c, events[Head(f).name], Head(f))
                     ELSE c,
                   Tail(f))

\* ------------------------------------------------------------ registries

\* the Set objects of a newly constructed controller
NoListeners(names) == [name \in names |-> <<>>]

DragEvents == {"start", "update", "abort", "end"}

\* whether the Set holds the callback
has(set, callback) == \E i \in DOMAIN set : set[i] = callback

\* Set.prototype.add: the callbacks are kept in the order of their insertion
add(set, callback) == IF has(set, callback) THEN set ELSE Append(set, callback)

\* Set.prototype.delete
delete(set, callback) == SelectSeq(set, LAMBDA other : other # callback)

\* the value of a function that returns nothing
Undefined == "undefined"

addEventListener(registry, event, callback) ==
  IF event \in DOMAIN registry
    THEN [registry EXCEPT ![event] = add(@, callback)]
    ELSE registry

\* hasEventListener without its missing return statement
hasEventListener_Returning(registry, event, callback) ==
  IF event \in DOMAIN registry
    THEN IF has(registry[event], callback) THEN "true" ELSE "false"
    ELSE Undefined

\* the value the call returns: the result of events[event].has(callback) is
\* computed and dropped
hasEventListener(registry, event, callback) == Undefined

\* removeEventListener that empties the Set of the event
removeEventListener_All(registry, event, callback) ==
  IF event \in DOMAIN registry
    THEN [registry EXCEPT ![event] = <<>>]
    ELSE registry

removeEventListener(registry, event, callback) ==
  IF event \in DOMAIN registry
    THEN [registry EXCEPT ![event] = delete(@, callback)]
    ELSE registry

\* no registry method was called yet
NoCall == [method |-> "none", controller |-> 0, event |-> "", callback |-> "", returned |-> Undefined]

\* the registries once the content script has added its listeners
ContentEvents ==
  [start |-> <<"startListener">>, update |-> <<"updateListener">>,
   abort |-> <<"abortListener">>, end |-> <<"endListener">>]

ContentEvents_1 == [rockerleft |-> <<"rockerLeft">>, rockerright |-> <<"rockerRight">>]

ContentEvents_2 == [wheelup |-> <<"wheelUp">>, wheeldown |-> <<"wheelDown">>]

\* ----------------------------------------------------------------- actions

\* the controllers' fields before a dispatch, with nothing observed yet
Cur ==
  [state |-> state, preventDefault |-> preventDefault, timeoutId |-> timeoutId,
   buffer |-> mouseEventBuffer, attached |-> attached, timeouts |-> pendingTimeouts,
   preventDefault_1 |-> preventDefault_1, lastMouseup |-> lastMouseup,
   attached_1 |-> attached_1,
   preventDefault_2 |-> preventDefault_2, lastMouseup_1 |-> lastMouseup_1,
   accumulatedDeltaY |-> accumulatedDeltaY, attached_2 |-> attached_2,
   fired |-> <<>>, sent |-> <<>>, prevented |-> FALSE, stopped |-> FALSE,
   lastPress |-> lastPress, startsFired |-> startsFired,
   contextmenuSeen |-> contextmenuSeen,
   accumulatedBefore |-> accumulatedDeltaY, suppressedClicks |-> suppressedClicks,
   armedBy |-> armedBy,
   patternConstructor |-> patternConstructor, changeIndicator |-> changeIndicator,
   points |-> points, invoked |-> <<>>, sentData |-> <<>>, inbox |-> inbox,
   Overlay |-> Overlay, lastPoint |-> lastPoint, traced |-> <<>>]

\* the fields after the dispatch, and what it is observed to have done
AssignFields(c, call) ==
  /\ Len(c.points) <= MaxPoints
  /\ state' = c.state
  /\ preventDefault' = c.preventDefault
  /\ timeoutId' = c.timeoutId
  /\ mouseEventBuffer' = c.buffer
  /\ attached' = c.attached
  /\ pendingTimeouts' = c.timeouts
  /\ preventDefault_1' = c.preventDefault_1
  /\ lastMouseup' = c.lastMouseup
  /\ attached_1' = c.attached_1
  /\ preventDefault_2' = c.preventDefault_2
  /\ lastMouseup_1' = c.lastMouseup_1
  /\ accumulatedDeltaY' = c.accumulatedDeltaY
  /\ attached_2' = c.attached_2
  /\ fired' = c.fired
  /\ sent' = c.sent
  /\ defaultPrevented' = c.prevented
  /\ propagationStopped' = c.stopped
  /\ lastPress' = c.lastPress
  /\ startsFired' = c.startsFired
  /\ contextmenuSeen' = c.contextmenuSeen
  /\ accumulatedBefore' = c.accumulatedBefore
  /\ suppressedClicks' = c.suppressedClicks
  /\ armedBy' = c.armedBy
  /\ lastCall' = call
  /\ patternConstructor' = c.patternConstructor
  /\ changeIndicator' = c.changeIndicator
  /\ points' = c.points
  /\ invoked' = c.invoked
  /\ sentData' = c.sentData
  /\ inbox' = c.inbox
  /\ Overlay' = c.Overlay
  /\ lastPoint' = c.lastPoint
  /\ traced' = c.traced
  /\ UNCHANGED cfgVars
  /\ UNCHANGED frameVars
  /\ registryCall' = NoCall
  /\ UNCHANGED <<events, events_1, events_2>>

\* the listeners registered for the callbacks fired run before the handler returns
CommitFields(handled, call) == AssignFields(Callbacks(handled, handled.fired), call)

Commit(c, call) == CommitFields(c, call) /\ UNCHANGED <<now, buttonsHeld, followUp>>

\* the module-level initialisation of the three controllers
InitFields ==
  /\ state = PASSIVE
  /\ preventDefault = TRUE
  /\ timeoutId = NoTimeout
  /\ mouseEventBuffer = <<>>
  /\ preventDefault_1 = TRUE
  /\ lastMouseup = 0
  /\ preventDefault_2 = TRUE
  /\ lastMouseup_1 = 0
  /\ accumulatedDeltaY = 0
  /\ attached = {}
  /\ attached_1 = {}
  /\ attached_2 = {}
  /\ pendingTimeouts = {}
  /\ now = 1
  /\ buttonsHeld = {}
  /\ followUp = NoFollowUp
  /\ fired = <<>>
  /\ sent = <<>>
  /\ defaultPrevented = FALSE
  /\ propagationStopped = FALSE
  /\ lastCall = "none"
  /\ lastPress = NoEvent
  /\ startsFired = 0
  /\ contextmenuSeen = TRUE
  /\ accumulatedBefore = 0
  /\ suppressedClicks = 0
  /\ armedBy = "load"
  /\ patternConstructor = constructor
  /\ changeIndicator = 0
  /\ points = <<>>
  /\ events_2 = ContentEvents_2
  /\ invoked = <<>>
  /\ registryCall = NoCall
  /\ sentData = <<>>
  /\ inbox = <<>>
  /\ Overlay = FALSE
  /\ lastPoint = <<0, 0>>
  /\ traced = <<>>

\* the content script in the top frame, with the gesture interface turned off
InitFrame ==
  /\ IS_EMBEDED_FRAME = FALSE
  /\ mozInnerScreen = <<0, 0>>
  /\ topInnerScreen = <<0, 0>>
  /\ TraceDisplay = FALSE
  /\ CommandDisplay = FALSE

\* the drag controller under each of its configurations, as constructed: its
\* events hold no callback, and the events it fires are observed in fired; the
\* wheel controller as initialised
Init ==
  /\ InitFields
  /\ events = NoListeners(DragEvents)
  /\ events_1 = ContentEvents_1
  /\ mouseButton \in {RIGHT_MOUSE_BUTTON, MIDDLE_MOUSE_BUTTON}
  /\ suppressionKey \in {"", "shiftKey"}
  /\ distanceThreshold \in Thresholds
  /\ timeoutActive \in BOOLEAN
  /\ mouseButton_1 = LEFT_MOUSE_BUTTON
  /\ wheelSensitivity \in Sensitivities
  /\ InitFrame

Enable == Commit(enable(Cur), "enable")

Disable == Commit(disable(Cur), "disable")

Cancel == Commit(cancel(Cur), "cancel")

\* the handlers of one event type, in the order main() attaches them
Handlers(c, listeners, type, handled) == IF type \in listeners THEN handled ELSE c

\* the window dispatches one event to the handlers attached for its type
DispatchPointerDown(event) ==
  /\ "pointerdown" \in attached
  /\ Len(mouseEventBuffer) < MaxBuf
  /\ Commit(handleMousedown(Cur, event), "pointerdown")

DispatchPointerMove(event) ==
  /\ "pointermove" \in attached
  /\ Len(mouseEventBuffer) < MaxBuf
  /\ Commit(handleMousemove(Cur, event), "pointermove")

DispatchPointerUp(event) ==
  /\ "pointerup" \in attached
  /\ Commit(handleMouseup(Cur, event), "pointerup")

DispatchKeydown(event) ==
  /\ "keydown" \in attached
  /\ Commit(handleKeydown(Cur, event), "keydown")

DispatchContextmenu(event) ==
  /\ "contextmenu" \in attached \cup attached_1 \cup attached_2
  /\ LET c1 == Handlers(Cur, attached, "contextmenu", handleContextmenu(Cur, event))
         c2 == Handlers(c1, attached_1, "contextmenu", handleContextmenu_1(c1, event))
         c3 == Handlers(c2, attached_2, "contextmenu", handleContextmenu_2(c2, event))
     IN  Commit(c3, "contextmenu")

DispatchDragstart(event) ==
  /\ "dragstart" \in attached
  /\ Commit(handleDragstart(Cur, event), "dragstart")

\* a timeout set by update() expires: the window calls abort()
DispatchTimeout(id) ==
  /\ id \in pendingTimeouts
  /\ Commit(abort([Cur EXCEPT !.timeouts = @ \ {id}]), "timeout")

PointerDown == \E event \in PointerDownEvents : DispatchPointerDown(event)

PointerMove == \E event \in PointerMoveEvents : DispatchPointerMove(event)

PointerUp == \E event \in PointerUpEvents : DispatchPointerUp(event)

Keydown == \E event \in KeydownEvents : DispatchKeydown(event)

Contextmenu == \E event \in ContextmenuEvents : DispatchContextmenu(event)

Dragstart == \E event \in DragstartEvents : DispatchDragstart(event)

Timeout == \E id \in pendingTimeouts : DispatchTimeout(id)

Next ==
  \/ Enable
  \/ Disable
  \/ Cancel
  \/ PointerDown
  \/ PointerMove
  \/ PointerUp
  \/ Keydown
  \/ Contextmenu
  \/ Dragstart
  \/ Timeout

Spec == Init /\ [][Next]_vars

\* ------------------------------- the rocker and wheel controllers alone

InitDetectors ==
  /\ InitFields
  /\ InitFrame
  /\ events = ContentEvents
  /\ events_1 = ContentEvents_1
  /\ mouseButton = RIGHT_MOUSE_BUTTON
  /\ suppressionKey = ""
  /\ distanceThreshold \in Thresholds
  /\ timeoutActive = FALSE
  /\ mouseButton_1 \in {LEFT_MOUSE_BUTTON, RIGHT_MOUSE_BUTTON}
  /\ wheelSensitivity \in Sensitivities

Enable_1 == Commit(enable_1(Cur), "enable_1")

Disable_1 == Commit(disable_1(Cur), "disable_1")

Enable_2 == Commit(enable_2(Cur), "enable_2")

Disable_2 == Commit(disable_2(Cur), "disable_2")

\* the listeners of one event, the rocker controller's first
mousedownListeners(c, event) ==
  LET c1 == Handlers(c, attached_1, "mousedown", handleMousedown_1(c, event))
  IN  Handlers(c1, attached_2, "mousedown", handleMousedown_2(c1, event))

mouseupListeners(c, event) ==
  LET c1 == Handlers(c, attached_1, "mouseup", handleMouseup_1(c, event))
  IN  Handlers(c1, attached_2, "mouseup", handleMouseup_2(c1, event))

clickListeners(c, event) ==
  LET c1 == Handlers(c, attached_1, "click", handleClick(c, event))
  IN  Handlers(c1, attached_2, "click", handleClick_1(c1, event))

visibilitychangeListeners(c) ==
  LET c1 == Handlers(c, attached_1, "visibilitychange", handleVisibilitychange(c))
  IN  Handlers(c1, attached_2, "visibilitychange", handleVisibilitychange_1(c1))

DispatchMousedown(event) ==
  /\ "mousedown" \in attached_1 \cup attached_2
  /\ Commit(mousedownListeners(Cur, event), "mousedown")

DispatchMouseup(event) ==
  /\ "mouseup" \in attached_1 \cup attached_2
  /\ Commit(mouseupListeners(Cur, event), "mouseup")

DispatchClick(event) ==
  /\ "click" \in attached_1 \cup attached_2
  /\ Commit(clickListeners(Cur, event), "click")

DispatchWheel(event) ==
  /\ "wheel" \in attached_2
  /\ Commit(handleWheel(Cur, event), "wheel")

Visibilitychange ==
  /\ "visibilitychange" \in attached_1 \cup attached_2
  /\ Commit(visibilitychangeListeners(Cur), "visibilitychange")

Mousedown == \E event \in MousedownEvents : DispatchMousedown(event)

Mouseup == \E event \in MouseupEvents : DispatchMouseup(event)

Click == \E event \in ClickEvents : DispatchClick(event)

Wheel == \E event \in WheelEvents : DispatchWheel(event)

\* time passes between two events
Tick ==
  /\ now < MaxTime
  /\ now' = now + 1
  /\ UNCHANGED <<state, preventDefault, timeoutId, mouseEventBuffer,
                 preventDefault_1, lastMouseup, preventDefault_2, lastMouseup_1,
                 accumulatedDeltaY, attached, attached_1, attached_2,
                 pendingTimeouts, buttonsHeld, followUp, fired, sent,
                 defaultPrevented, propagationStopped, lastCall, lastPress,
                 startsFired, contextmenuSeen, accumulatedBefore, suppressedClicks,
                 armedBy>>
  /\ UNCHANGED cfgVars
  /\ UNCHANGED <<pcVars, registryVars, frameVars, viewVars>>

NextDetectors ==
  \/ Enable_1
  \/ Disable_1
  \/ Enable_2
  \/ Disable_2
  \/ Mousedown
  \/ Mouseup
  \/ Click
  \/ Wheel
  \/ Contextmenu
  \/ Visibilitychange
  \/ Tick

SpecDetectors == InitDetectors /\ [][NextDetectors]_vars

\* ------------------------ the drag controller driven by one physical mouse

\* event.buttons while the buttons of held are down
Mask(held) ==
  (IF LEFT_MOUSE_BUTTON \in held THEN LEFT_MOUSE_BUTTON ELSE 0)
    + (IF RIGHT_MOUSE_BUTTON \in held THEN RIGHT_MOUSE_BUTTON ELSE 0)
    + (IF MIDDLE_MOUSE_BUTTON \in held THEN MIDDLE_MOUSE_BUTTON ELSE 0)

\* the pointer event of a button change: pointerdown for the first button that
\* goes down, pointerup for the last that goes up, pointermove in between
ButtonChange(held, b, p) ==
  Ev(IF buttonsHeld = {} THEN "pointerdown"
     ELSE IF held = {} THEN "pointerup"
     ELSE "pointermove",
     TRUE, Mask(held), ButtonOf(b), {}, p, "", FALSE)

\* the window dispatches a pointer event to the handler attached for its type
DispatchPointer(event, held) ==
  /\ Len(mouseEventBuffer) < MaxBuf
  /\ buttonsHeld' = held
  /\ now' = now
  /\ followUp' = followUp
  /\ LET c == IF event.type \notin attached THEN Cur
              ELSE IF event.type = "pointerdown" THEN handleMousedown(Cur, event)
              ELSE IF event.type = "pointerup" THEN handleMouseup(Cur, event)
              ELSE handleMousemove(Cur, event)
     IN  CommitFields(c, event.type)

MousePress ==
  \E b \in {LEFT_MOUSE_BUTTON, RIGHT_MOUSE_BUTTON, MIDDLE_MOUSE_BUTTON} \ buttonsHeld,
     p \in Points :
    DispatchPointer(ButtonChange(buttonsHeld \cup {b}, b, p), buttonsHeld \cup {b})

MouseRelease ==
  \E b \in buttonsHeld, p \in Points :
    DispatchPointer(ButtonChange(buttonsHeld \ {b}, b, p), buttonsHeld \ {b})

MouseMove ==
  \E p \in Points :
    DispatchPointer(Ev("pointermove", TRUE, Mask(buttonsHeld), -1, {}, p, "", FALSE),
                    buttonsHeld)

NextMouse ==
  \/ Enable
  \/ Disable
  \/ Cancel
  \/ MousePress
  \/ MouseRelease
  \/ MouseMove
  \/ Keydown
  \/ Contextmenu
  \/ Timeout

SpecMouse == Init /\ [][NextMouse]_vars

\* ------------- the rocker and wheel controllers driven by one physical mouse

\* the rocker's suppression is armed anew: no click suppressed since
Armed(c, by) == [c EXCEPT !.suppressedClicks = 0, !.armedBy = by]

\* the history of the rocker's suppression after the listeners of an event
\* ran on the fields of before: armed by a rocker gesture, by a visibility
\* change or by disable(), or one more click suppressed
Recorded(before, c, type, event) ==
  IF type = "mousedown" /\ c.fired # <<>> THEN Armed(c, "rocker")
  ELSE IF type = "visibilitychange" /\ type \in attached_1 THEN Armed(c, type)
  ELSE IF type = "disable" THEN Armed(c, type)
  ELSE IF type = "click" /\ type \in attached_1 /\ handleClick(before, event).prevented
            /\ c.suppressedClicks < MaxSuppressed
    THEN [c EXCEPT !.suppressedClicks = @ + 1]
  ELSE c

MouseButtons == {LEFT_MOUSE_BUTTON, RIGHT_MOUSE_BUTTON, MIDDLE_MOUSE_BUTTON}

\* the event that may follow the change of the button b at the same instant:
\* a contextmenu after the right button, a click after a release of another
FollowUps(b, isRelease) ==
  {NoFollowUp}
    \cup (IF b = RIGHT_MOUSE_BUTTON
            THEN {[type |-> "contextmenu", button |-> ButtonOf(b)]}
          ELSE IF isRelease
            THEN {[type |-> "click", button |-> ButtonOf(b)]}
          ELSE {})

\* what the mouse and the clock do in a step that dispatches events at `now`
Elapse(held, next) ==
  /\ now < MaxMouseTime
  /\ followUp = NoFollowUp
  /\ buttonsHeld' = held
  /\ followUp' = next
  /\ now' = IF next = NoFollowUp THEN now + 1 ELSE now

PressButton ==
  \E b \in MouseButtons \ buttonsHeld :
    \E next \in FollowUps(b, FALSE) :
      /\ Elapse(buttonsHeld \cup {b}, next)
      /\ LET event == MEv("mousedown", TRUE, Mask(buttonsHeld \cup {b}), ButtonOf(b), 1, 0, now)
         IN  CommitFields(Recorded(Cur, mousedownListeners(Cur, event), "mousedown", event),
                          "mousedown")

ReleaseButton ==
  \E b \in buttonsHeld :
    \E next \in FollowUps(b, TRUE) :
      /\ Elapse(buttonsHeld \ {b}, next)
      /\ CommitFields(
           mouseupListeners(Cur, MEv("mouseup", TRUE, Mask(buttonsHeld \ {b}),
                                     ButtonOf(b), 1, 0, now)),
           "mouseup")

\* the click or contextmenu event of the last button change, at its instant
FollowUp ==
  /\ followUp # NoFollowUp
  /\ buttonsHeld' = buttonsHeld
  /\ followUp' = NoFollowUp
  /\ now' = now + 1
  /\ IF followUp.type = "click"
       THEN LET event == MEv("click", TRUE, Mask(buttonsHeld), followUp.button, 1, 0, now)
            IN  CommitFields(Recorded(Cur, clickListeners(Cur, event), "click", event), "click")
       ELSE LET event == Ev("contextmenu", TRUE, Mask(buttonsHeld), followUp.button,
                            {}, <<0, 0>>, "", FALSE)
                c1 == Handlers(Cur, attached_1, "contextmenu", handleContextmenu_1(Cur, event))
                c2 == Handlers(c1, attached_2, "contextmenu", handleContextmenu_2(c1, event))
            IN  CommitFields(c2, "contextmenu")

\* a click no release of the mouse brings: a key, a label, a script
OtherClick ==
  \E event \in ClickEvents :
    /\ Elapse(buttonsHeld, NoFollowUp)
    /\ CommitFields(Recorded(Cur, clickListeners(Cur, event), "click", event), "click")

TurnWheel ==
  \E deltaY \in Deltas \ {0} :
    /\ Elapse(buttonsHeld, NoFollowUp)
    /\ CommitFields(
         Handlers(Cur, attached_2, "wheel",
                  handleWheel(Cur, MEv("wheel", TRUE, Mask(buttonsHeld), -1, 0, deltaY, now))),
         "wheel")

\* the tab is hidden or shown
ChangeVisibility ==
  /\ Elapse(buttonsHeld, NoFollowUp)
  /\ CommitFields(Recorded(Cur, visibilitychangeListeners(Cur), "visibilitychange", NoEvent),
                  "visibilitychange")

\* main() enables or disables a controller between two events
Configure ==
  /\ followUp = NoFollowUp
  /\ \/ Enable_1
     \/ Commit(Recorded(Cur, disable_1(Cur), "disable", NoEvent), "disable_1")
     \/ Enable_2
     \/ Disable_2

NextMouseDetectors ==
  \/ Configure
  \/ PressButton
  \/ ReleaseButton
  \/ FollowUp
  \/ OtherClick
  \/ TurnWheel
  \/ ChangeVisibility

SpecMouseDetectors == InitDetectors /\ [][NextMouseDetectors]_vars

\* ------------------------------------------- the pattern constructor alone

\* the points added: on a line, at and around the distance threshold, and
\* under angles below and above the difference threshold
PatternPoints ==
  {<<0, 0>>, <<6, 0>>, <<10, 0>>, <<12, 0>>, <<24, 0>>, <<24, 4>>, <<24, 6>>,
   <<12, 12>>, <<24, 24>>}

AddPoint ==
  \E p \in PatternPoints :
    /\ Len(points) < MaxPoints
    /\ LET r == addPoint(patternConstructor, p[1], p[2])
       IN  /\ patternConstructor' = r.this
           /\ changeIndicator' = r.changeIndicator
    /\ points' = Append(points, p)
    /\ UNCHANGED <<detectorVars, registryVars, frameVars, viewVars>>

Clear ==
  /\ patternConstructor' = clear(patternConstructor)
  /\ points' = <<>>
  /\ UNCHANGED <<changeIndicator, detectorVars, registryVars, frameVars, viewVars>>

NextPattern == AddPoint \/ Clear

InitPattern ==
  /\ InitFields
  /\ InitFrame
  /\ events = ContentEvents
  /\ events_1 = ContentEvents_1
  /\ mouseButton = RIGHT_MOUSE_BUTTON
  /\ suppressionKey = ""
  /\ distanceThreshold \in Thresholds
  /\ timeoutActive = FALSE
  /\ mouseButton_1 = LEFT_MOUSE_BUTTON
  /\ wheelSensitivity \in Sensitivities

SpecPattern == InitPattern /\ [][NextPattern]_vars

\* ------------------------- the content script: drag controller and listeners

\* longest queue of messages on their way to the top frame
MaxInbox == 3

\* window.mozInnerScreenX/Y of the top frame, and of a frame embedded in it
TopInnerScreen == <<5, 8>>

FrameInnerScreen == <<35, 28>>

\* the content script once loaded in a top frame or in an embedded frame, with
\* each setting of the gesture interface
InitContent ==
  /\ InitFields
  /\ events = ContentEvents
  /\ events_1 = ContentEvents_1
  /\ mouseButton = RIGHT_MOUSE_BUTTON
  /\ suppressionKey = "shiftKey"
  /\ distanceThreshold \in Thresholds
  /\ timeoutActive = TRUE
  /\ mouseButton_1 = LEFT_MOUSE_BUTTON
  /\ wheelSensitivity \in Sensitivities
  /\ IS_EMBEDED_FRAME \in BOOLEAN
  /\ topInnerScreen = TopInnerScreen
  /\ mozInnerScreen = IF IS_EMBEDED_FRAME THEN FrameInnerScreen ELSE TopInnerScreen
  /\ TraceDisplay \in BOOLEAN
  /\ CommandDisplay \in BOOLEAN

\* the trusted events of a gesture drawn with the trigger button, from a press
\* at the first of the points
GestureEvents(Events) ==
  { event \in Events :
      /\ event.isTrusted /\ event.mods = {} /\ event.buttons \in {0, mouseButton}
      /\ event.type = "pointerdown" => Client(event) = <<0, 0>> }

\* room for the messages one dispatch sends to the top frame
InboxHasRoom == Len(inbox) + 2 <= MaxInbox

ContentPointerDown ==
  \E event \in GestureEvents(PointerDownEvents) : InboxHasRoom /\ DispatchPointerDown(event)

ContentPointerMove ==
  \E event \in GestureEvents(PointerMoveEvents) : InboxHasRoom /\ DispatchPointerMove(event)

ContentPointerUp ==
  \E event \in GestureEvents(PointerUpEvents) : InboxHasRoom /\ DispatchPointerUp(event)

ContentKeydown ==
  \E event \in GestureEvents(KeydownEvents) : InboxHasRoom /\ DispatchKeydown(event)

ContentTimeout == InboxHasRoom /\ Timeout

\* the top frame receives the oldest message on its way
OnMessage ==
  /\ inbox # <<>>
  /\ Commit(onMessage([Cur EXCEPT !.inbox = Tail(@)], Head(inbox)), "message")

NextContent ==
  \/ Enable
  \/ Disable
  \/ Cancel
  \/ ContentPointerDown
  \/ ContentPointerMove
  \/ ContentPointerUp
  \/ ContentKeydown
  \/ ContentTimeout
  \/ OnMessage

SpecContent == InitContent /\ [][NextContent]_vars

\* ------------------ the drag controller during a gesture of several moves

\* the drag controller as constructed, with the timeout and a suppression key
InitStroke ==
  /\ InitFields
  /\ InitFrame
  /\ events = NoListeners(DragEvents)
  /\ events_1 = ContentEvents_1
  /\ mouseButton = RIGHT_MOUSE_BUTTON
  /\ suppressionKey = "shiftKey"
  /\ distanceThreshold \in Thresholds
  /\ timeoutActive = TRUE
  /\ mouseButton_1 = LEFT_MOUSE_BUTTON
  /\ wheelSensitivity \in Sensitivities

StrokePointerDown ==
  \E event \in GestureEvents(PointerDownEvents) :
    /\ "pointerdown" \in attached
    /\ Len(mouseEventBuffer) < MaxStroke
    /\ Commit(handleMousedown(Cur, event), "pointerdown")

StrokePointerMove ==
  \E event \in GestureEvents(PointerMoveEvents) :
    /\ "pointermove" \in attached
    /\ Len(mouseEventBuffer) < MaxStroke
    /\ Commit(handleMousemove(Cur, event), "pointermove")

StrokePointerUp == \E event \in GestureEvents(PointerUpEvents) : DispatchPointerUp(event)

StrokeKeydown == \E event \in GestureEvents(KeydownEvents) : DispatchKeydown(event)

NextStroke ==
  \/ Enable
  \/ Disable
  \/ Cancel
  \/ StrokePointerDown
  \/ StrokePointerMove
  \/ StrokePointerUp
  \/ StrokeKeydown
  \/ Timeout

SpecStroke == InitStroke /\ [][NextStroke]_vars

\* ------------------------------------- the registries of the controllers

\* callbacks a client of the controllers registers, other than the content script's
ClientCallbacks == {"f", "g"}

\* event names a client passes: one of the drag controller, which the rocker
\* controller does not have, and one of the rocker controller, which the drag
\* controller does not have
ClientEvents == {"start", "rockerleft"}

\* the drag and the rocker controller as constructed
InitRegistry ==
  /\ InitFields
  /\ InitFrame
  /\ events = NoListeners(DragEvents)
  /\ events_1 = NoListeners({"rockerleft", "rockerright"})
  /\ mouseButton = RIGHT_MOUSE_BUTTON
  /\ suppressionKey = ""
  /\ distanceThreshold \in Thresholds
  /\ timeoutActive = FALSE
  /\ mouseButton_1 = LEFT_MOUSE_BUTTON
  /\ wheelSensitivity \in Sensitivities

\* a registry method of MouseGestureController (1) or RockerGestureController (2)
RegistryCall(method, controller, event, callback) ==
  LET registry == IF controller = 1 THEN events ELSE events_1
      after == CASE method = "addEventListener" -> addEventListener(registry, event, callback)
                 [] method = "removeEventListener" -> removeEventListener(registry, event, callback)
                 [] OTHER -> registry
  IN  /\ events' = IF controller = 1 THEN after ELSE events
      /\ events_1' = IF controller = 2 THEN after ELSE events_1
      /\ registryCall' =
           [method |-> method, controller |-> controller, event |-> event, callback |-> callback,
            returned |-> IF method = "hasEventListener"
                           THEN hasEventListener(registry, event, callback)
                           ELSE Undefined]
      /\ UNCHANGED <<detectorVars, pcVars, frameVars, viewVars, events_2, invoked>>

AddEventListener ==
  \E controller \in {1, 2}, event \in ClientEvents, callback \in ClientCallbacks :
    RegistryCall("addEventListener", controller, event, callback)

HasEventListener ==
  \E controller \in {1, 2}, event \in ClientEvents, callback \in ClientCallbacks :
    RegistryCall("hasEventListener", controller, event, callback)

RemoveEventListener ==
  \E controller \in {1, 2}, event \in ClientEvents, callback \in ClientCallbacks :
    RegistryCall("removeEventListener", controller, event, callback)

\* a gesture drawn from the first to the last of the points, and released there
Stroke ==
  \/ ContentPointerDown
  \/ \E event \in GestureEvents(PointerMoveEvents) :
       Client(event) = <<10, 10>> /\ DispatchPointerMove(event)
  \/ \E event \in GestureEvents(PointerUpEvents) :
       Client(event) = <<10, 10>> /\ event.button = toSingleButton(mouseButton) /\ DispatchPointerUp(event)

\* a trusted press of the left button while the right one is held
RockerLeft ==
  \E event \in MousedownEvents :
    /\ event.isTrusted /\ event.buttons = 3 /\ event.button = 0
    /\ DispatchMousedown(event)

NextRegistry ==
  \/ AddEventListener
  \/ HasEventListener
  \/ RemoveEventListener
  \/ Enable
  \/ Enable_1
  \/ Stroke
  \/ RockerLeft

SpecRegistry == InitRegistry /\ [][NextRegistry]_vars

\* ------------- the content script fed events that carry coalesced events

\* a sub-sample the browser folded into a pointermove event
SubSample(p) == [clientX |-> p[1], clientY |-> p[2]]

\* a position the pointer passed on its way to the position an event reports
MidPoint == <<5, 5>>

\* the event with the list its getCoalescedEvents() returns
Coalescing(event, list) ==
  [f \in DOMAIN event \cup {"coalesced"} |-> IF f = "coalesced" THEN list ELSE event[f]]

\* what getCoalescedEvents() returns for a pointermove: nothing, the event
\* itself, or an earlier sub-sample and the event itself
CoalescedLists(event) ==
  {<<>>, <<SubSample(Client(event))>>, <<SubSample(MidPoint), SubSample(Client(event))>>}

\* a pointerdown has no coalesced events
CoalescedPointerDownEvents ==
  { Coalescing(event, <<>>) : event \in GestureEvents(PointerDownEvents) }

CoalescedPointerMoveEvents ==
  UNION { { Coalescing(event, list) : list \in CoalescedLists(event) } :
            event \in GestureEvents(PointerMoveEvents) }

InitCoalesced ==
  /\ InitFields
  /\ InitFrame
  /\ events = ContentEvents
  /\ events_1 = ContentEvents_1
  /\ mouseButton = RIGHT_MOUSE_BUTTON
  /\ suppressionKey = "shiftKey"
  /\ distanceThreshold \in Thresholds
  /\ timeoutActive = TRUE
  /\ mouseButton_1 = LEFT_MOUSE_BUTTON
  /\ wheelSensitivity \in Sensitivities

CoalescedPointerDown == \E event \in CoalescedPointerDownEvents : DispatchPointerDown(event)

CoalescedPointerMove == \E event \in CoalescedPointerMoveEvents : DispatchPointerMove(event)

NextCoalesced ==
  \/ Enable
  \/ CoalescedPointerDown
  \/ CoalescedPointerMove
  \/ StrokePointerUp
  \/ StrokeKeydown
  \/ Timeout

SpecCoalesced == InitCoalesced /\ [][NextCoalesced]_vars

\* ------------------------------------------------------------------ claims

\* what the last dispatch passed to the listeners of events[name]
Dispatched(f, name) == { i \in DOMAIN f : f[i].name = name }

\* the button (event.button) of the configured trigger (a buttons mask)
TriggerButton ==
  IF mouseButton = LEFT_MOUSE_BUTTON THEN 0
  ELSE IF mouseButton = RIGHT_MOUSE_BUTTON THEN 2
  ELSE 1

\* the suppression key is not configured, or the event does not report it held
SuppressionAbsent(event) == suppressionKey = "" \/ suppressionKey \notin event.mods

\* C1: in Passive a press moves the controller to Pending if and only if it is
\* trusted, its buttons mask is the trigger mask and the suppression key is not
\* configured or not held; the buffer then holds exactly that press and the
\* move/keydown/release/dragstart listeners are attached. Any other press
\* leaves state, buffer, listeners and suppression flag unchanged.
C1_PressInPassive ==
  [][\A event \in PointerDownEvents :
       (state = PASSIVE /\ lastCall' = "pointerdown" /\ DispatchPointerDown(event)) =>
         IF event.isTrusted /\ event.buttons = mouseButton /\ SuppressionAbsent(event)
           THEN /\ state' = PENDING
                /\ mouseEventBuffer' = <<event>>
                /\ attached' = attached \cup GestureListeners
           ELSE /\ state' = PASSIVE
                /\ mouseEventBuffer' = mouseEventBuffer
                /\ attached' = attached
                /\ preventDefault' = preventDefault]_vars

\* C1 witness: a press accepted in Passive with a suppression key configured
C1_Witness ==
  /\ lastCall = "pointerdown"
  /\ state = PENDING
  /\ Len(mouseEventBuffer) = 1
  /\ suppressionKey # ""
  /\ GestureListeners \subseteq attached

\* the squared distance of two buffered samples
SquaredDistance(a, b) ==
  (b.clientX - a.clientX) * (b.clientX - a.clientX)
    + (b.clientY - a.clientY) * (b.clientY - a.clientY)

\* C2: in Pending every accepted move is appended to the buffer; 'start' is
\* dispatched at the accepted move whose distance from the first buffered sample
\* is strictly greater than the threshold, with that first sample and the whole
\* buffer, and the state becomes Active; a move within the threshold dispatches
\* nothing. 'start' is dispatched by nothing else, and at most once between two
\* accepted presses.
C2_StartOnceBeyondThreshold ==
  [][/\ \A event \in PointerMoveEvents :
          (state = PENDING /\ lastCall' = "pointermove"
             /\ event.isTrusted /\ event.buttons = mouseButton
             /\ DispatchPointerMove(event)) =>
            /\ mouseEventBuffer' = Append(mouseEventBuffer, event)
            /\ IF SquaredDistance(mouseEventBuffer[1], event)
                    > distanceThreshold * distanceThreshold
                 THEN /\ fired' = <<[name |-> "start", event |-> mouseEventBuffer[1],
                                     buffer |-> mouseEventBuffer']>>
                      /\ state' = ACTIVE
                 ELSE /\ fired' = <<>>
                      /\ state' = PENDING
     /\ Dispatched(fired', "start") # {} =>
          /\ state = PENDING
          /\ lastCall' = "pointermove"
          /\ Len(fired') = 1
          /\ SquaredDistance(fired'[1].buffer[1], fired'[1].buffer[Len(fired'[1].buffer)])
               > distanceThreshold * distanceThreshold
     /\ startsFired' <= 1]_vars

\* C2 witness: 'start' dispatched at the second move, the first having stayed
\* at the threshold
C2_Witness ==
  /\ lastCall = "pointermove"
  /\ state = ACTIVE
  /\ Dispatched(fired, "start") # {}
  /\ Len(mouseEventBuffer) = 3
  /\ SquaredDistance(mouseEventBuffer[1], mouseEventBuffer[2])
       = distanceThreshold * distanceThreshold

\* C3: a trusted release of the trigger button resets the controller to Passive
\* with an empty buffer, no gesture listeners and no pending timeout; received
\* in Active it first dispatches 'end' once, with the release and the buffer
\* ending with the release; received in Pending or Aborted it dispatches nothing.
C3_ReleaseEndsOrResets ==
  [][\A event \in PointerUpEvents :
       (lastCall' = "pointerup" /\ event.isTrusted /\ event.button = TriggerButton
          /\ DispatchPointerUp(event)) =>
         /\ state' = PASSIVE
         /\ mouseEventBuffer' = <<>>
         /\ attached' \cap GestureListeners = {}
         /\ pendingTimeouts' = {}
         /\ IF state = ACTIVE
              THEN fired' = <<[name |-> "end", event |-> event,
                               buffer |-> Append(mouseEventBuffer, event)]>>
              ELSE fired' = <<>>]_vars

\* C3 witness: 'end' dispatched by a release, with the timeout enabled
C3_Witness ==
  /\ lastCall = "pointerup"
  /\ state = PASSIVE
  /\ Dispatched(fired, "end") # {}
  /\ timeoutActive

\* C4, as claimed: once 'abort' is dispatched the controller is reset, so it is
\* Passive with the buffer empty and the gesture listeners detached when the
\* handler returns, and Aborted is never the state between two events.
C4_Original ==
  /\ state # ABORTED
  /\ Dispatched(fired, "abort") # {} =>
       /\ state = PASSIVE
       /\ mouseEventBuffer = <<>>
       /\ attached \cap GestureListeners = {}

\* C4, amended: the abort leaves the controller Aborted with the buffer and the
\* listeners as they were; from Aborted the controller stays Aborted, the
\* listeners attached and the buffer only growing, until a release, cancel() or
\* disable() resets it to Passive (buffer empty, gesture listeners detached), or
\* an accepted press makes it Pending.
C4_AbortedUntilReleased ==
  [][/\ Dispatched(fired', "abort") # {} =>
          /\ state' = ABORTED
          /\ mouseEventBuffer' = mouseEventBuffer
          /\ attached' = attached
     /\ state = ABORTED =>
          \/ /\ state' = ABORTED
             /\ attached' = attached
             /\ Len(mouseEventBuffer') >= Len(mouseEventBuffer)
             /\ SubSeq(mouseEventBuffer', 1, Len(mouseEventBuffer)) = mouseEventBuffer
          \/ /\ state' = PASSIVE
             /\ lastCall' \in {"pointerup", "cancel", "disable"}
             /\ mouseEventBuffer' = <<>>
             /\ attached' \cap GestureListeners = {}
          \/ /\ state' = PENDING
             /\ lastCall' = "pointerdown"]_vars

\* C4 witness: a move buffered while Aborted: the abort was followed by no reset
C4_Witness ==
  /\ state = ABORTED
  /\ lastCall = "pointermove"
  /\ Len(mouseEventBuffer) >= 2
  /\ GestureListeners \subseteq attached

\* C5, as claimed: the state changes only Passive->Pending, Pending->Active,
\* Active->Aborted, Aborted->Passive, Pending->Passive and Active->Passive.
C5_Original ==
  [][state' # state =>
       <<state, state'>> \in {<<PASSIVE, PENDING>>, <<PENDING, ACTIVE>>,
                              <<ACTIVE, ABORTED>>, <<ABORTED, PASSIVE>>,
                              <<PENDING, PASSIVE>>, <<ACTIVE, PASSIVE>>}]_vars

\* C6: cancel() and disable() leave the controller Passive with an empty
\* buffer, the gesture listeners detached and no timeout pending, and dispatch
\* nothing; disable() also detaches the press and context-menu listeners. From
\* Passive nothing is dispatched and no timeout is pending, and Passive is left
\* only by a press.
C6_CancelDisable ==
  [][/\ lastCall' \in {"cancel", "disable"} =>
          /\ state' = PASSIVE
          /\ mouseEventBuffer' = <<>>
          /\ attached' \cap GestureListeners = {}
          /\ pendingTimeouts' = {}
          /\ fired' = <<>>
          /\ lastCall' = "disable" => attached' = {}
     /\ state = PASSIVE =>
          /\ fired' = <<>>
          /\ pendingTimeouts' = {}
          /\ state' # PASSIVE => (state' = PENDING /\ lastCall' = "pointerdown")]_vars

\* C6 witness: cancel() called after a gesture had started with the timeout enabled
C6_Witness ==
  /\ lastCall = "cancel"
  /\ state = PASSIVE
  /\ startsFired = 1
  /\ timeoutActive
  /\ attached = StartListeners

\* C7: in Active every accepted move is appended to the buffer and dispatches
\* 'update' once, with the move and the buffer ending with it; 'update' is
\* dispatched by a move received in Active only, and never together with 'start'.
C7_UpdatePerMove ==
  [][/\ \A event \in PointerMoveEvents :
          (state = ACTIVE /\ lastCall' = "pointermove"
             /\ event.isTrusted /\ event.buttons = mouseButton
             /\ DispatchPointerMove(event)) =>
            /\ mouseEventBuffer' = Append(mouseEventBuffer, event)
            /\ fired' = <<[name |-> "update", event |-> event,
                           buffer |-> mouseEventBuffer']>>
            /\ state' = ACTIVE
     /\ Dispatched(fired', "update") # {} =>
          /\ state = ACTIVE
          /\ lastCall' = "pointermove"
          /\ Len(fired') = 1]_vars

\* C7 witness: an 'update' dispatched in Active
C7_Witness ==
  /\ lastCall = "pointermove"
  /\ state = ACTIVE
  /\ Dispatched(fired, "update") # {}
  /\ fired[1].buffer = mouseEventBuffer

\* the event.key of the configured suppression key
SuppressionKeyName ==
  IF suppressionKey = "shiftKey" THEN "Shift"
  ELSE IF suppressionKey = "ctrlKey" THEN "Control"
  ELSE IF suppressionKey = "altKey" THEN "Alt"
  ELSE "none"

\* C8: in Active, with a suppression key configured, a trusted keydown of that
\* key that is no repeat dispatches 'abort' with the buffer and makes the state
\* Aborted; any other keydown dispatches nothing and leaves the state unchanged.
C8_SuppressionKeyAborts ==
  [][\A event \in KeydownEvents :
       (state = ACTIVE /\ lastCall' = "keydown" /\ DispatchKeydown(event)) =>
         IF suppressionKey # "" /\ event.isTrusted /\ ~event.repeat
              /\ event.key = SuppressionKeyName
           THEN /\ fired' = <<[name |-> "abort", event |-> NoEvent,
                               buffer |-> mouseEventBuffer]>>
                /\ state' = ABORTED
           ELSE /\ fired' = <<>>
                /\ state' = ACTIVE]_vars

\* C8 witness: 'abort' dispatched by a keydown after the gesture had started
C8_Witness ==
  /\ lastCall = "keydown"
  /\ state = ABORTED
  /\ Dispatched(fired, "abort") # {}
  /\ startsFired = 1

\* C9, as claimed: in every state but Passive the first buffered sample is the
\* most recent accepted press, and every other buffered sample arrived after it
\* (so none of them is a press).
C9_Original ==
  state # PASSIVE =>
    /\ Len(mouseEventBuffer) >= 1
    /\ mouseEventBuffer[1] = lastPress
    /\ \A i \in 2..Len(mouseEventBuffer) : mouseEventBuffer[i].type # "pointerdown"

\* what the three detectors keep between two events
DetectorState ==
  <<state, mouseEventBuffer, timeoutId, pendingTimeouts, preventDefault,
    preventDefault_1, lastMouseup,
    preventDefault_2, lastMouseup_1, accumulatedDeltaY>>

\* the window dispatches a synthesized event of some kind
UntrustedDispatch ==
  \/ \E event \in PointerDownEvents : ~event.isTrusted /\ DispatchPointerDown(event)
  \/ \E event \in PointerMoveEvents : ~event.isTrusted /\ DispatchPointerMove(event)
  \/ \E event \in PointerUpEvents : ~event.isTrusted /\ DispatchPointerUp(event)
  \/ \E event \in KeydownEvents : ~event.isTrusted /\ DispatchKeydown(event)
  \/ \E event \in DragstartEvents : ~event.isTrusted /\ DispatchDragstart(event)
  \/ \E event \in ContextmenuEvents : ~event.isTrusted /\ DispatchContextmenu(event)
  \/ \E event \in MousedownEvents : ~event.isTrusted /\ DispatchMousedown(event)
  \/ \E event \in MouseupEvents : ~event.isTrusted /\ DispatchMouseup(event)
  \/ \E event \in ClickEvents : ~event.isTrusted /\ DispatchClick(event)
  \/ \E event \in WheelEvents : ~event.isTrusted /\ DispatchWheel(event)

\* C10, as claimed: the dispatch of an untrusted event of any kind leaves the
\* lifecycle state, the buffer, the timer, the three suppression flags, the
\* last-release timestamps and the wheel accumulator as they were, fires no
\* gesture event, sends no message and prevents nothing; a run is therefore
\* the same with and without the untrusted events interleaved in it.
C10_Original ==
  [][UntrustedDispatch =>
       /\ UNCHANGED DetectorState
       /\ fired' = <<>>
       /\ sent' = <<>>
       /\ ~defaultPrevented'
       /\ ~propagationStopped']_vars

\* the one gesture event a wheel sample fires
OneGesture(f, name, event) ==
  f = <<[name |-> name, event |-> event, buffer |-> <<>>]>>

\* a wheel sample the wheel controller accepts
WheelAccepted(event) ==
  event.isTrusted /\ event.buttons = mouseButton_1 /\ event.deltaY # 0

\* C11: an accepted wheel sample whose delta has the sign of the accumulator
\* (or finds it at 0) is added to the accumulator; if the sum's magnitude
\* reaches the sensitivity exactly one event fires - wheelup for a negative
\* sum, wheeldown for a positive one - and the accumulator is 0 afterwards;
\* below the sensitivity nothing fires and the accumulator is the sum.
C11_WheelAccumulates ==
  [][\A event \in WheelEvents :
       (/\ lastCall' = "wheel"
        /\ WheelAccepted(event)
        /\ (accumulatedDeltaY = 0 \/ (accumulatedDeltaY < 0) = (event.deltaY < 0))
        /\ DispatchWheel(event)) =>
         LET sum == accumulatedDeltaY + event.deltaY
         IN  IF Abs(sum) >= wheelSensitivity
               THEN /\ OneGesture(fired', IF sum < 0 THEN "wheelup" ELSE "wheeldown", event)
                    /\ sent' = <<IF sum < 0 THEN "wheelUp" ELSE "wheelDown">>
                    /\ accumulatedDeltaY' = 0
               ELSE /\ fired' = <<>>
                    /\ sent' = <<>>
                    /\ accumulatedDeltaY' = sum]_vars

\* C11 witness: deltas +3, +4 with the sensitivity 5: wheeldown on the second
C11_Witness ==
  /\ lastCall = "wheel"
  /\ wheelSensitivity = 5
  /\ accumulatedBefore = 3
  /\ Len(fired) = 1
  /\ fired[1].name = "wheeldown"
  /\ fired[1].event.deltaY = 4
  /\ accumulatedDeltaY = 0

\* C12: an accepted wheel sample whose sign differs from the sign of a
\* non-zero accumulator starts from 0: the accumulator becomes the delta alone
\* and nothing fires if the delta is below the sensitivity; otherwise the
\* delta's own event fires on that sample and the accumulator is 0.
C12_SignFlipResetsFirst ==
  [][\A event \in WheelEvents :
       (/\ lastCall' = "wheel"
        /\ WheelAccepted(event)
        /\ accumulatedDeltaY # 0
        /\ (accumulatedDeltaY < 0) # (event.deltaY < 0)
        /\ DispatchWheel(event)) =>
         IF Abs(event.deltaY) >= wheelSensitivity
           THEN /\ OneGesture(fired', IF event.deltaY < 0 THEN "wheelup" ELSE "wheeldown", event)
                /\ accumulatedDeltaY' = 0
           ELSE /\ fired' = <<>>
                /\ accumulatedDeltaY' = event.deltaY]_vars

\* C12 witness: deltas +3, -1 with the sensitivity 5 leave -1, nothing fired
C12_Witness ==
  /\ lastCall = "wheel"
  /\ wheelSensitivity = 5
  /\ accumulatedBefore = 3
  /\ accumulatedDeltaY = -1
  /\ fired = <<>>

\* C12, second witness: one sign-flipping delta at least as large as the
\* sensitivity fires on its own sample
C12_WitnessImmediate ==
  /\ lastCall = "wheel"
  /\ accumulatedBefore > 0
  /\ Len(fired) = 1
  /\ fired[1].name = "wheelup"
  /\ fired[1].event.deltaY = -6
  /\ accumulatedDeltaY = 0

\* C13: a trusted press whose buttons mask is exactly left + right fires
\* exactly one rocker event - rockerleft if the pressed button is the left
\* one, rockerright if it is the right one -, is default-prevented, has its
\* propagation stopped and leaves the rocker's suppression armed; a trusted
\* press with another mask and an untrusted press fire nothing.
C13_RockerPress ==
  [][\A event \in MousedownEvents :
       (/\ lastCall' = "mousedown"
        /\ "mousedown" \in attached_1
        /\ DispatchMousedown(event)) =>
         IF event.isTrusted /\ event.buttons = LEFT_MOUSE_BUTTON + RIGHT_MOUSE_BUTTON
           THEN /\ OneGesture(fired', IF event.button = toSingleButton(LEFT_MOUSE_BUTTON)
                                        THEN "rockerleft" ELSE "rockerright", event)
                /\ sent' = <<IF event.button = toSingleButton(LEFT_MOUSE_BUTTON)
                               THEN "rockerLeft" ELSE "rockerRight">>
                /\ defaultPrevented'
                /\ propagationStopped'
                /\ preventDefault_1'
           ELSE /\ fired' = <<>>
                /\ sent' = <<>>]_vars

\* C13 witness: the left button pressed while the right one is held
C13_Witness ==
  /\ lastCall = "mousedown"
  /\ Len(fired) = 1
  /\ fired[1].name = "rockerleft"
  /\ fired[1].event.buttons = LEFT_MOUSE_BUTTON + RIGHT_MOUSE_BUTTON
  /\ fired[1].event.button = toSingleButton(LEFT_MOUSE_BUTTON)
  /\ preventDefault_1
  /\ defaultPrevented
  /\ propagationStopped

\* C14: the rocker controller stores the timestamp of every release it
\* receives, and (the wheel controller not listening) a click is suppressed
\* only if it is trusted, the rocker's suppression is armed, its button is the
\* left one, its click count is not 0 and its timestamp is the stored one; a
\* click with another timestamp is never suppressed.
C14_ClickSuppressedOnlyAtRelease ==
  [][/\ \A event \in MouseupEvents :
          (/\ lastCall' = "mouseup"
           /\ "mouseup" \in attached_1
           /\ DispatchMouseup(event)) => lastMouseup' = event.timeStamp
     /\ \A event \in ClickEvents :
          (/\ lastCall' = "click"
           /\ "click" \in attached_1
           /\ "click" \notin attached_2
           /\ DispatchClick(event)) =>
            /\ (defaultPrevented' \/ propagationStopped') =>
                  /\ event.isTrusted
                  /\ preventDefault_1
                  /\ event.button = toSingleButton(LEFT_MOUSE_BUTTON)
                  /\ event.detail # 0
                  /\ event.timeStamp = lastMouseup
            /\ event.timeStamp # lastMouseup =>
                  ~defaultPrevented' /\ ~propagationStopped']_vars

\* C14 witness: a click suppressed by the rocker controller alone, at the
\* timestamp of a release that came after the first instant
C14_Witness ==
  /\ lastCall = "click"
  /\ defaultPrevented
  /\ "click" \in attached_1
  /\ "click" \notin attached_2
  /\ lastMouseup = now
  /\ now > 1

\* C14, second witness: an armed rocker controller lets a trusted left click
\* through whose timestamp is later than the last release
C14_WitnessUnrelated ==
  /\ lastCall = "click"
  /\ ~defaultPrevented
  /\ "click" \in attached_1
  /\ preventDefault_1
  /\ lastMouseup > 0
  /\ lastMouseup < now

\* the click of the release of the left button reaches a listening rocker
ReleaseClick ==
  /\ followUp = [type |-> "click", button |-> toSingleButton(LEFT_MOUSE_BUTTON)]
  /\ "click" \in attached_1
  /\ FollowUp

\* the rocker controller suppressed the click of this step
RockerSuppressed == suppressedClicks' = suppressedClicks + 1

\* C15, as claimed: once a rocker gesture has armed the suppression, the click
\* of the next release of the left button is suppressed, and no second click
\* is suppressed before the suppression is armed again.
C15_Original ==
  [][/\ (armedBy = "rocker" /\ suppressedClicks = 0 /\ ReleaseClick) => RockerSuppressed
     /\ suppressedClicks' <= 1]_vars

\* C15, amended: a rocker gesture arms the suppression and only a trusted
\* press disarms it; the click of a release of the left button is suppressed
\* if and only if the suppression is armed then; with one mouse no second
\* click is suppressed before a rocker gesture, a visibility change or
\* disable() arms the suppression again.
C15_SuppressedWhileArmed ==
  [][/\ ReleaseClick => (RockerSuppressed <=> preventDefault_1)
     /\ (lastCall' = "mousedown" /\ fired' # <<>>) => preventDefault_1'
     /\ (preventDefault_1 /\ ~preventDefault_1') => lastCall' = "mousedown"
     /\ suppressedClicks' <= 1]_vars

\* C15 witness: the click after a rocker gesture was suppressed, and a later
\* click of the mouse was not
C15_Witness ==
  /\ lastCall = "click"
  /\ armedBy = "rocker"
  /\ suppressedClicks = 1
  /\ ~preventDefault_1
  /\ ~defaultPrevented
  /\ lastMouseup = now - 1
  /\ "click" \in attached_1

\* a sequence without its last element
Front(s) == IF s = <<>> THEN <<>> ELSE SubSeq(s, 1, Len(s) - 1)

\* s is the beginning of t
IsPrefix(s, t) == Len(s) <= Len(t) /\ SubSeq(t, 1, Len(s)) = s

\* the step adds a point to the pattern constructor
PointAdded == Len(points') = Len(points) + 1

\* C16: getPattern() returns [] if and only if no point was added since the
\* construction or the last clear(); otherwise it returns the segments
\* extracted so far followed by exactly one more vector, from the last
\* extracted point to the last point.
C16_PatternLength ==
  LET pattern == getPattern(patternConstructor)
  IN  /\ pattern = <<>> <=> points = <<>>
      /\ points # <<>> =>
           /\ Len(pattern) = Len(patternConstructor.extracedVectors) + 1
           /\ Front(pattern) = patternConstructor.extracedVectors
           /\ pattern[Len(pattern)] =
                <<points[Len(points)][1] - patternConstructor.lastExtractedPoint[1],
                  points[Len(points)][2] - patternConstructor.lastExtractedPoint[2]>>

\* C16 witness: two segments extracted, the pattern has three vectors
C16_Witness ==
  /\ Len(patternConstructor.extracedVectors) = 2
  /\ Len(getPattern(patternConstructor)) = 3

\* the point the step adds
NewPoint == points'[Len(points')]

\* the displacement of p from the previous point is within the threshold
WithinThreshold(this, p) ==
  /\ this.previousPoint # Null
  /\ ~vectorDistanceExceeds(p[1] - this.previousPoint[1], p[2] - this.previousPoint[2])

\* C17: a point within the distance threshold of the previous point extracts
\* no segment, leaves the previous point, the previous vector and the last
\* extracted point as they were, and addPoint returns 0 for it; and after
\* every call, adding the same point once more leaves getPattern() as it is.
C17_JitterIgnored ==
  [][PointAdded =>
       /\ WithinThreshold(patternConstructor, NewPoint) =>
            /\ changeIndicator' = 0
            /\ patternConstructor'.extracedVectors = patternConstructor.extracedVectors
            /\ patternConstructor'.previousPoint = patternConstructor.previousPoint
            /\ patternConstructor'.previousVecto = patternConstructor.previousVecto
            /\ patternConstructor'.lastExtractedPoint = patternConstructor.lastExtractedPoint
       /\ getPattern(addPoint(patternConstructor', NewPoint[1], NewPoint[2]).this)
            = getPattern(patternConstructor')]_vars

\* C17 witness: a point at the distance threshold exactly, added after a
\* segment was extracted, is only the last point
C17_Witness ==
  /\ changeIndicator = 0
  /\ Len(patternConstructor.extracedVectors) = 1
  /\ patternConstructor.lastPoint # patternConstructor.previousPoint
  /\ (patternConstructor.lastPoint[1] - patternConstructor.previousPoint[1])
       * (patternConstructor.lastPoint[1] - patternConstructor.previousPoint[1])
     + (patternConstructor.lastPoint[2] - patternConstructor.previousPoint[2])
       * (patternConstructor.lastPoint[2] - patternConstructor.previousPoint[2])
     = PatternDistanceThreshold * PatternDistanceThreshold

\* the steps from each point to the next all point the same way on one line
IsStraight(ps) ==
  \A i, j \in 1..(Len(ps) - 1) :
    LET dix == ps[i + 1][1] - ps[i][1]
        diy == ps[i + 1][2] - ps[i][2]
        djx == ps[j + 1][1] - ps[j][1]
        djy == ps[j + 1][2] - ps[j][2]
    IN  /\ dix * djy - diy * djx = 0
        /\ dix * djx + diy * djy > 0

\* C18: while the points added advance on one straight line in one direction,
\* whatever their number and their steps, no segment is extracted, the
\* previous vector is set once and never replaced, and getPattern() has
\* length 1.
C18_StraightLine ==
  [][(PointAdded /\ IsStraight(points')) =>
       /\ patternConstructor'.extracedVectors = <<>>
       /\ Len(getPattern(patternConstructor')) = 1
       /\ changeIndicator' # 2
       /\ patternConstructor.previousVecto # Null =>
            patternConstructor'.previousVecto = patternConstructor.previousVecto]_vars

\* C18 witness: four points on the diagonal or on the axis with steps of
\* different sizes, the previous vector set by the first step beyond the
\* threshold
C18_Witness ==
  /\ Len(points) = 4
  /\ IsStraight(points)
  /\ patternConstructor.previousVecto # Null
  /\ patternConstructor.previousPoint = points[4]
  /\ patternConstructor.previousVecto # <<points[4][1] - points[3][1], points[4][2] - points[3][2]>>
  /\ Len(getPattern(patternConstructor)) = 1

\* the call extracted a segment
SegmentExtracted ==
  Len(patternConstructor'.extracedVectors) = Len(patternConstructor.extracedVectors) + 1

\* C19, as claimed: addPoint returns 0, 1 or 2; 2 exactly when the call
\* extracts a segment, 1 exactly when it sets a new reference direction (the
\* previous vector) without extracting a segment, 0 otherwise.
C19_Original ==
  [][PointAdded =>
       /\ changeIndicator' \in {0, 1, 2}
       /\ changeIndicator' = 2 <=> SegmentExtracted
       /\ changeIndicator' = 1 <=>
            (/\ ~SegmentExtracted
             /\ patternConstructor'.previousVecto # patternConstructor.previousVecto)]_vars

\* C19, amended: addPoint returns 0, 1 or 2; 2 exactly when the call extracts
\* a segment, 1 exactly when the displacement from the previous point exceeds
\* the distance threshold and no segment is extracted - the previous point
\* moves to the new point, and the previous vector is set only if there was
\* none -, 0 for the first point and for a displacement within the threshold.
C19_ChangeIndicator ==
  [][PointAdded =>
       /\ changeIndicator' \in {0, 1, 2}
       /\ changeIndicator' = 2 <=> SegmentExtracted
       /\ changeIndicator' = 1 <=>
            (/\ ~SegmentExtracted
             /\ patternConstructor.previousPoint # Null
             /\ ~WithinThreshold(patternConstructor, NewPoint))
       /\ changeIndicator' = 1 =>
            /\ patternConstructor'.previousPoint = NewPoint
            /\ patternConstructor'.previousVecto =
                 IF patternConstructor.previousVecto = Null
                   THEN <<NewPoint[1] - patternConstructor.previousPoint[1],
                          NewPoint[2] - patternConstructor.previousPoint[2]>>
                   ELSE patternConstructor.previousVecto
       /\ changeIndicator' = 0 <=>
            (patternConstructor.previousPoint = Null
               \/ WithinThreshold(patternConstructor, NewPoint))]_vars

\* C19 witness: 1 returned for a point that moved the previous point and left
\* the previous vector as it was
C19_Witness ==
  /\ changeIndicator = 1
  /\ Len(points) >= 3
  /\ patternConstructor.previousPoint = points[Len(points)]
  /\ patternConstructor.previousVecto # Null
  /\ patternConstructor.extracedVectors = <<>>
  /\ patternConstructor.previousVecto
       # <<points[Len(points)][1] - points[Len(points) - 1][1],
           points[Len(points)][2] - points[Len(points) - 1][2]>>

\* C20: an addPoint call leaves the extracted vectors it found in place:
\* getPattern() without its last element before the call is the beginning of
\* getPattern() without its last element after it, so between two clear()
\* calls every earlier read is, up to its last vector, a prefix of a later one.
C20_SegmentsOnlyAppended ==
  [][PointAdded =>
       /\ IsPrefix(Front(getPattern(patternConstructor)),
                   Front(getPattern(patternConstructor')))
       /\ Len(Front(getPattern(patternConstructor')))
            <= Len(Front(getPattern(patternConstructor))) + 1]_vars

\* C20 witness: a second segment extracted behind the first
C20_Witness ==
  /\ changeIndicator = 2
  /\ Len(patternConstructor.extracedVectors) = 2
  /\ patternConstructor.extracedVectors[1] # patternConstructor.extracedVectors[2]

\* what a caller sees of two addPoint calls, p then q, on the constructor this
Observed(this, p, q) ==
  LET r1 == addPoint(this, p[1], p[2])
      r2 == addPoint(r1.this, q[1], q[2])
  IN  <<r1.changeIndicator, getPattern(r1.this), r2.changeIndicator, getPattern(r2.this)>>

\* the step is a clear() call
Cleared == points' = <<>> /\ patternConstructor' = clear(patternConstructor)

\* C21: after clear(), whatever points were added before, getPattern()
\* returns [], every field is as the constructor leaves it, and the addPoint
\* return values and getPattern() results of the points added next are those
\* of a newly constructed PatternConstructor.
C21_ClearIsNew ==
  [][Cleared =>
       /\ getPattern(patternConstructor') = <<>>
       /\ patternConstructor' = constructor
       /\ \A p, q \in PatternPoints :
            Observed(patternConstructor', p, q) = Observed(constructor, p, q)]_vars

\* C21 witness: cleared after a segment had been extracted
C21_Witness ==
  /\ points = <<>>
  /\ changeIndicator = 2
  /\ patternConstructor = constructor

\* the gestureEnd messages among the messages of the last dispatch
GestureEnds == { i \in DOMAIN sent' : sent'[i] = "gestureEnd" }

Forth(p, origin) == <<p[1] + origin[1], p[2] + origin[2]>>

Back(p, origin) == <<p[1] - origin[1], p[2] - origin[2]>>

\* the local points of the samples a fired start or update passes to the trace
LocalTrace(f) ==
  IF f.name = "start"
    THEN [i \in DOMAIN f.buffer |-> Client(f.buffer[i])]
    ELSE <<Client(f.event)>>

\* the message that forwards the local points from a frame at the origin
Forwarded(local, origin) ==
  [subject |-> "mouseGestureViewUpdateGestureTrace",
   data |-> [points |-> [k \in DOMAIN local |-> Forth(local[k], origin)]]]

\* C23: the points an embedded frame forwards to the gesture interface are the
\* local points offset by the frame's screen origin; the top frame offsets the
\* points it consumes back by its own screen origin, so that a consumed point
\* is the local point moved by the difference of the two origins, its position
\* in the top frame's viewport; forwarding from and consuming in the same frame
\* yields the local points, which is what the direct path of the top frame
\* passes to the view.
C23_ScreenRoundTrip ==
  [][/\ (lastCall' = "pointermove" /\ TraceDisplay /\ fired' # <<>>) =>
          LET local == LocalTrace(fired'[1])
          IN  IF IS_EMBEDED_FRAME
                THEN /\ inbox'[Len(inbox')] = Forwarded(local, mozInnerScreen)
                     /\ Len(inbox') > Len(inbox)
                     /\ fired'[1].name = "start" =>
                          inbox'[Len(inbox') - 1] =
                            [subject |-> "mouseGestureViewInitialize",
                             data |-> [x |-> fired'[1].event.clientX + mozInnerScreen[1],
                                       y |-> fired'[1].event.clientY + mozInnerScreen[2]]]
                ELSE /\ traced' = local
                     /\ lastPoint' = local[Len(local)]
                     /\ onMessage(Cur, Forwarded(local, topInnerScreen)).traced = local
     /\ (lastCall' = "message" /\ inbox # <<>>
           /\ Head(inbox).subject = "mouseGestureViewUpdateGestureTrace") =>
          LET forwarded == Head(inbox).data.points
          IN  /\ traced' = [k \in DOMAIN forwarded |-> Back(forwarded[k], topInnerScreen)]
              /\ \A k \in DOMAIN forwarded :
                   \E p \in Points :
                     traced'[k] = Forth(p, Back(mozInnerScreen, topInnerScreen))
              /\ lastPoint' = traced'[Len(traced')]
     /\ (lastCall' = "message" /\ inbox # <<>>
           /\ Head(inbox).subject = "mouseGestureViewInitialize") =>
          /\ lastPoint' = Back(<<Head(inbox).data.x, Head(inbox).data.y>>, topInnerScreen)
          /\ \E p \in Points : lastPoint' = Forth(p, Back(mozInnerScreen, topInnerScreen))]_vars

\* the top frame consumed the two points an embedded frame forwarded at start
C23_Witness ==
  /\ lastCall = "message"
  /\ IS_EMBEDED_FRAME
  /\ traced = << <<0 + FrameInnerScreen[1] - TopInnerScreen[1], 0 + FrameInnerScreen[2] - TopInnerScreen[2]>>,
                 <<10 + FrameInnerScreen[1] - TopInnerScreen[1], 10 + FrameInnerScreen[2] - TopInnerScreen[2]>> >>

\* how often the callback occurs among the callbacks
Occurrences(callbacks, callback) ==
  Cardinality({ i \in DOMAIN callbacks : callbacks[i] = callback })

\* the registry of the controller before and after the step
RegistryOf(controller) == IF controller = 1 THEN events ELSE events_1

RegistryAfter(controller) == IF controller = 1 THEN events' ELSE events_1'

\* add and remove keep a set per known event, and change nothing for an
\* unknown one; a firing invokes the callbacks registered, each once
RegistryIsSet ==
  /\ \A controller \in {1, 2}, event \in ClientEvents, callback \in ClientCallbacks :
       LET before == RegistryOf(controller)
           after == RegistryAfter(controller)
       IN  /\ RegistryCall("addEventListener", controller, event, callback) =>
                IF event \in DOMAIN before
                  THEN /\ Occurrences(after[event], callback) = 1
                       /\ \A other \in ClientCallbacks \ {callback} :
                            Occurrences(after[event], other) = Occurrences(before[event], other)
                       /\ \A name \in DOMAIN before \ {event} : after[name] = before[name]
                  ELSE after = before
           /\ RegistryCall("removeEventListener", controller, event, callback) =>
                IF event \in DOMAIN before
                  THEN /\ Occurrences(after[event], callback) = 0
                       /\ \A other \in ClientCallbacks \ {callback} :
                            Occurrences(after[event], other) = Occurrences(before[event], other)
                       /\ \A name \in DOMAIN before \ {event} : after[name] = before[name]
                  ELSE after = before
           /\ RegistryCall("hasEventListener", controller, event, callback) => after = before
  /\ (registryCall' = NoCall /\ lastCall' = "pointermove" /\ Dispatched(fired', "start") # {}) =>
       \A callback \in ClientCallbacks :
         Occurrences(invoked', callback) = Occurrences(events["start"], callback)
  /\ (registryCall' = NoCall /\ lastCall' = "mousedown" /\ Dispatched(fired', "rockerleft") # {}) =>
       \A callback \in ClientCallbacks :
         Occurrences(invoked', callback) = Occurrences(events_1["rockerleft"], callback)
  /\ \A callback \in ClientCallbacks :
       /\ Occurrences(events'["start"], callback) <= 1
       /\ Occurrences(events_1'["rockerleft"], callback) <= 1

\* hasEventListener returns whether the callback is registered for the event
HasReports ==
  \A controller \in {1, 2}, event \in ClientEvents, callback \in ClientCallbacks :
    (RegistryCall("hasEventListener", controller, event, callback)
       /\ event \in DOMAIN RegistryOf(controller)) =>
      registryCall'.returned =
        IF has(RegistryOf(controller)[event], callback) THEN "true" ELSE "false"

\* C24 as stated: the registry of each controller behaves as a set per named
\* event (a callback added twice is registered and invoked once, a removed
\* one is no longer invoked, calls for an unknown event name change nothing)
\* and hasEventListener reports whether the callback is registered.
C24_Original == [][RegistryIsSet /\ HasReports]_vars

\* the set behaviour alone
RegistryIsSetAlways == [][RegistryIsSet]_vars

\* hasEventListener was called for a callback that is registered
C24_Witness ==
  /\ registryCall.method = "hasEventListener"
  /\ registryCall.controller = 1
  /\ registryCall.event = "start"
  /\ has(events["start"], registryCall.callback)
  /\ registryCall.returned = Undefined

\* C25: in Active with the timeout enabled, every update clears the timeout
\* pending and sets a new one, which is then the only one pending; never is
\* more than one timeout pending; the timeout that fires is the one set by the
\* latest update, so that no update occurred since it was set, and it calls
\* abort, which leaves the controller Aborted.
C25_TimeoutRearmed ==
  [][/\ (lastCall' = "pointermove" /\ Dispatched(fired', "update") # {} /\ timeoutActive) =>
          /\ state = ACTIVE
          /\ timeoutId' # timeoutId
          /\ timeoutId' \notin pendingTimeouts
          /\ pendingTimeouts' = {timeoutId'}
     /\ Cardinality(pendingTimeouts') <= 1
     /\ (lastCall' = "timeout" /\ pendingTimeouts' # pendingTimeouts) =>
          /\ pendingTimeouts = {timeoutId}
          /\ pendingTimeouts' = {}
          /\ Dispatched(fired', "abort") # {}
          /\ state' = ABORTED]_vars

\* an update found the timeout of the update before it pending, and replaced it
C25_Witness ==
  /\ lastCall = "pointermove"
  /\ state = ACTIVE
  /\ Len(mouseEventBuffer) >= 4
  /\ timeoutId = 2
  /\ pendingTimeouts = {2}

\* C26: whenever the drag controller is Passive, none of the listeners of a
\* gesture attempt (pointermove, pointerup, keydown, dragstart) is attached,
\* no timeout is pending and the buffer is empty, whichever way Passive was
\* reached.
C26_PassiveIsClean ==
  state = PASSIVE =>
    /\ attached \cap GestureListeners = {}
    /\ pendingTimeouts = {}
    /\ timeoutId = NoTimeout
    /\ mouseEventBuffer = <<>>

\* a release in Aborted, after the timeout fired in a started gesture, reset the controller
C26_Witness ==
  /\ state = PASSIVE
  /\ lastCall = "pointerup"
  /\ startsFired = 1
  /\ timeoutActive
  /\ suppressionKey = ""
  /\ fired = <<>>

\* the drag controller stopped and prevented the context menu of the event
MenuSuppressed == defaultPrevented' /\ propagationStopped'

\* C27: with the right button as trigger, the suppression of the context menu
\* is armed at load and armed again by every contextmenu event the controller
\* handles; a trusted contextmenu event of the right button that arrives with
\* no accepted press since load or since the previous contextmenu event is
\* suppressed: its default is prevented and its propagation stopped.
C27_MenuWithoutPress ==
  [][/\ contextmenuSeen => preventDefault
     /\ \A event \in ContextmenuEvents :
          (/\ mouseButton = RIGHT_MOUSE_BUTTON
           /\ "contextmenu" \in attached
           /\ lastCall' = "contextmenu"
           /\ DispatchContextmenu(event)) =>
             /\ preventDefault'
             /\ (contextmenuSeen /\ event.isTrusted /\ event.button = 2) => MenuSuppressed]_vars

\* a second contextmenu event with no press at all was suppressed
C27_Witness ==
  /\ mouseButton = RIGHT_MOUSE_BUTTON
  /\ lastCall = "contextmenu"
  /\ lastPress = NoEvent
  /\ contextmenuSeen
  /\ defaultPrevented
  /\ propagationStopped

\* C28: the first contextmenu event after an accepted press whose gesture
\* attempt has not fired start (the button released or not) is not suppressed
\* by the drag controller, and handling it arms the suppression again for the
\* contextmenu event after it.
C28_MenuAfterPressOnly ==
  [][\A event \in ContextmenuEvents :
       (/\ ~contextmenuSeen
        /\ startsFired = 0
        /\ lastCall' = "contextmenu"
        /\ DispatchContextmenu(event)) =>
          /\ lastPress # NoEvent
          /\ ~defaultPrevented'
          /\ ~propagationStopped'
          /\ preventDefault'
          /\ handleContextmenu(Cur', event).prevented =
               (event.isTrusted /\ event.button = 2 /\ mouseButton = RIGHT_MOUSE_BUTTON)]_vars

\* the right button was pressed and released without start, and the
\* contextmenu event that followed was let through and armed the suppression
C28_Witness ==
  /\ mouseButton = RIGHT_MOUSE_BUTTON
  /\ lastCall = "contextmenu"
  /\ state = PASSIVE
  /\ lastPress # NoEvent
  /\ startsFired = 0
  /\ ~defaultPrevented
  /\ preventDefault

\* C29: with the right button as trigger, once start has fired and no press
\* was accepted since, a trusted contextmenu event of the right button that
\* the controller handles is suppressed, in whichever state the attempt is or
\* ended: released, aborted by key or timeout, or cancelled.
C29_MenuAfterStart ==
  [][\A event \in ContextmenuEvents :
       (/\ mouseButton = RIGHT_MOUSE_BUTTON
        /\ startsFired >= 1
        /\ event.isTrusted /\ event.button = 2
        /\ lastCall' = "contextmenu"
        /\ DispatchContextmenu(event)) => MenuSuppressed]_vars

\* the first contextmenu event after a gesture that had started and is over
\* was suppressed
C29_Witness ==
  /\ mouseButton = RIGHT_MOUSE_BUTTON
  /\ lastCall = "contextmenu"
  /\ state = PASSIVE
  /\ startsFired = 1
  /\ defaultPrevented
  /\ propagationStopped

\* the suppression of the wheel controller becomes armed in the step
WheelArmed == ~preventDefault_2 /\ preventDefault_2'

\* every trusted press the wheel controller handles disarms its suppression
PressDisarmsWheel ==
  (lastCall' = "mousedown" /\ "mousedown" \in attached_2) => ~preventDefault_2'

\* C30 as stated: the suppression of the wheel controller becomes armed only
\* when a wheel gesture (wheelup or wheeldown) fires or on a visibility
\* change, and every trusted press disarms it.
C30_Original ==
  [][/\ WheelArmed =>
          \/ lastCall' = "visibilitychange"
          \/ lastCall' = "wheel" /\ fired' # <<>>
     /\ PressDisarmsWheel]_vars

\* C30, amended: the suppression of the wheel controller becomes armed by
\* every wheel sample the controller accepts (trusted, the trigger button
\* alone held, delta not 0), whether or not a gesture fires, by a visibility
\* change and by disable(); every trusted press disarms it.
C30_WheelSampleArms ==
  [][/\ WheelArmed => lastCall' \in {"wheel", "visibilitychange", "disable_2"}
     /\ (lastCall' = "wheel" /\ "wheel" \in attached_2 /\ Mask(buttonsHeld) = mouseButton_1) =>
          /\ preventDefault_2'
          /\ defaultPrevented'
     /\ (lastCall' = "visibilitychange" /\ "visibilitychange" \in attached_2) => preventDefault_2'
     /\ lastCall' = "disable_2" => preventDefault_2'
     /\ PressDisarmsWheel]_vars

\* the wheel was turned with the trigger held and no gesture fired since; the
\* click of the release was suppressed, and not by the rocker controller
C30_Witness ==
  /\ lastCall = "click"
  /\ defaultPrevented
  /\ ~preventDefault_1
  /\ preventDefault_2
  /\ accumulatedDeltaY # 0

\* the mouse presses a button and the listening rocker controller sees a
\* mask other than left + right
OrdinaryPress ==
  /\ lastCall' = "mousedown"
  /\ buttonsHeld' # buttonsHeld
  /\ "mousedown" \in attached_1
  /\ Mask(buttonsHeld') # LEFT_MOUSE_BUTTON + RIGHT_MOUSE_BUTTON

\* the rocker's suppression goes from disarmed to armed
RockerArmed == ~preventDefault_1 /\ preventDefault_1'

\* the context-menu event of this step was suppressed, the wheel controller
\* not listening
RockerSuppressedMenu ==
  /\ lastCall' = "contextmenu"
  /\ followUp # NoFollowUp
  /\ "contextmenu" \notin attached_2
  /\ defaultPrevented'

\* what an ordinary press, a visibility change and a disarmed suppression do
RockerDisarmed ==
  /\ OrdinaryPress => ~preventDefault_1' /\ fired' = <<>>
  /\ (lastCall' = "visibilitychange" /\ "visibilitychange" \in attached_1) =>
        preventDefault_1'
  /\ (followUp # NoFollowUp /\ ~preventDefault_1) =>
        ~RockerSuppressed /\ ~RockerSuppressedMenu

\* C31, as claimed: every trusted press that is not a rocker combination
\* disarms the rocker's suppression, a visibility change always arms it, a
\* click or context-menu event is not suppressed by the rocker while the
\* suppression is disarmed, and only a rocker press or a visibility change
\* arms it again.
C31_Original ==
  [][/\ RockerDisarmed
     /\ RockerArmed =>
          \/ lastCall' = "mousedown" /\ fired' # <<>>
          \/ lastCall' = "visibilitychange"]_vars

\* C31, amended: as claimed, except that disable() arms the suppression as
\* well, so that a press followed by disable() and enable() has its click or
\* context-menu event suppressed.
C31_OrdinaryPressDisarms ==
  [][/\ RockerDisarmed
     /\ RockerArmed =>
          \/ lastCall' = "mousedown" /\ fired' # <<>>
          \/ lastCall' = "visibilitychange"
          \/ lastCall' = "disable_1"
     /\ lastCall' = "disable_1" => preventDefault_1']_vars

\* C31 witness: after a rocker gesture had armed the suppression, the
\* context-menu event of an ordinary press of the right button went through
C31_Witness ==
  /\ lastCall = "contextmenu"
  /\ armedBy = "rocker"
  /\ ~preventDefault_1
  /\ ~defaultPrevented
  /\ "contextmenu" \in attached_1
  /\ buttonsHeld = {RIGHT_MOUSE_BUTTON}

\* C32: every trusted press and every visibility change the wheel controller
\* receives sets the accumulator to 0, so that the deltas accumulated before
\* do not count towards a later wheelup or wheeldown; a wheel sample that is
\* untrusted, has delta 0 or comes with a buttons mask other than the trigger
\* leaves the accumulator and the suppression flag as they were, fires
\* nothing and is not suppressed.
C32_PressResetsAccumulator ==
  [][/\ \A event \in MousedownEvents :
          (/\ lastCall' = "mousedown"
           /\ "mousedown" \in attached_2
           /\ event.isTrusted
           /\ DispatchMousedown(event)) => accumulatedDeltaY' = 0
     /\ (/\ lastCall' = "visibilitychange"
         /\ "visibilitychange" \in attached_2
         /\ Visibilitychange) => accumulatedDeltaY' = 0
     /\ \A event \in WheelEvents :
          (/\ lastCall' = "wheel"
           /\ ~WheelAccepted(event)
           /\ DispatchWheel(event)) =>
            /\ accumulatedDeltaY' = accumulatedDeltaY
            /\ preventDefault_2' = preventDefault_2
            /\ fired' = <<>>
            /\ ~defaultPrevented'
            /\ ~propagationStopped']_vars

\* C32 witness: a press found deltas accumulated and left none
C32_Witness ==
  /\ lastCall = "mousedown"
  /\ "mousedown" \in attached_2
  /\ accumulatedBefore # 0
  /\ accumulatedDeltaY = 0

\* C32, second witness: a wheel sample that was not accepted found deltas
\* accumulated and left them
C32_WitnessIgnored ==
  /\ lastCall = "wheel"
  /\ accumulatedBefore # 0
  /\ accumulatedDeltaY = accumulatedBefore
  /\ preventDefault_2
  /\ ~defaultPrevented

\* the displacement of the point p from the previous point
Displacement(this, p) == <<p[1] - this.previousPoint[1], p[2] - this.previousPoint[2]>>

\* the displacement of p exceeds the distance threshold and there is a
\* reference direction to compare it with
Comparable(this, p) ==
  /\ this.previousPoint # Null
  /\ this.previousVecto # Null
  /\ vectorDistanceExceeds(Displacement(this, p)[1], Displacement(this, p)[2])

\* the direction of the displacement of p differs from the reference
\* direction by more than the difference threshold
Turns(this, p) ==
  vectorDirectionDifferenceExceeds(this.previousVecto[1], this.previousVecto[2],
                                   Displacement(this, p)[1], Displacement(this, p)[2])

\* C33: for a displacement beyond the distance threshold, compared with the
\* reference direction: if the directions differ by more than the difference
\* threshold, exactly one segment is appended, the vector from the last
\* extracted point to the previous point, the previous point becomes the
\* last extracted point and the displacement the reference direction;
\* otherwise no segment is appended and the reference direction and the last
\* extracted point stay. In both cases the previous point is the new point.
C33_SegmentFromAnchor ==
  [][(PointAdded /\ Comparable(patternConstructor, NewPoint)) =>
       /\ patternConstructor'.previousPoint = NewPoint
       /\ IF Turns(patternConstructor, NewPoint)
            THEN /\ patternConstructor'.extracedVectors =
                      Append(patternConstructor.extracedVectors,
                             <<patternConstructor.previousPoint[1]
                                 - patternConstructor.lastExtractedPoint[1],
                               patternConstructor.previousPoint[2]
                                 - patternConstructor.lastExtractedPoint[2]>>)
                 /\ patternConstructor'.lastExtractedPoint = patternConstructor.previousPoint
                 /\ patternConstructor'.previousVecto =
                      Displacement(patternConstructor, NewPoint)
            ELSE /\ patternConstructor'.extracedVectors = patternConstructor.extracedVectors
                 /\ patternConstructor'.lastExtractedPoint =
                      patternConstructor.lastExtractedPoint
                 /\ patternConstructor'.previousVecto = patternConstructor.previousVecto]_vars

\* C33 witness: right along the x axis, a point within the threshold, then
\* up: the segment (24, 0) ends at the previous point, not at the last point
\* before the turn, and the new reference direction is (0, 24)
C33_Witness ==
  /\ points = <<<<0, 0>>, <<24, 0>>, <<24, 6>>, <<24, 24>>>>
  /\ patternConstructor.extracedVectors = <<<<24, 0>>>>
  /\ patternConstructor.lastExtractedPoint = <<24, 0>>
  /\ patternConstructor.previousVecto = <<0, 24>>
  /\ patternConstructor.previousPoint = <<24, 24>>

\* C33, second witness: a displacement beyond the distance threshold whose
\* direction is within the difference threshold of the reference direction
C33_WitnessNoTurn ==
  /\ points = <<<<0, 0>>, <<12, 0>>, <<24, 4>>>>
  /\ patternConstructor.extracedVectors = <<>>
  /\ patternConstructor.lastExtractedPoint = <<0, 0>>
  /\ patternConstructor.previousVecto = <<12, 0>>
  /\ patternConstructor.previousPoint = <<24, 4>>

RECURSIVE Positions(_)
\* the positions of a list of events or sub-samples, in its order
Positions(list) ==
  IF list = <<>> THEN <<>> ELSE <<Client(Head(list))>> \o Positions(Tail(list))

\* the points of one sample: its sub-samples, or itself when it has none
SamplePoints(event) ==
  IF event.coalesced = <<>> THEN <<Client(event)>> ELSE Positions(event.coalesced)

RECURSIVE BufferPoints(_)
\* the points of the buffered samples, each contributing its own
BufferPoints(buffer) ==
  IF buffer = <<>> THEN <<>> ELSE SamplePoints(Head(buffer)) \o BufferPoints(Tail(buffer))

RECURSIVE SubSamplePoints(_)
\* the sub-samples of the buffered samples, a sample without any contributing
\* nothing
SubSamplePoints(buffer) ==
  IF buffer = <<>>
    THEN <<>>
    ELSE Positions(Head(buffer).coalesced) \o SubSamplePoints(Tail(buffer))

\* the move of this step made the controller fire start
StartFired == lastCall' = "pointermove" /\ Dispatched(fired', "start") # {}

\* the update listener adds the sub-samples of the move, or the move itself;
\* a move with another buttons mask is no sample of the gesture
UpdateFeedsMove ==
  \A event \in CoalescedPointerMoveEvents :
    (/\ lastCall' = "pointermove"
     /\ state = ACTIVE
     /\ DispatchPointerMove(event)) =>
       points' = points \o (IF event.buttons = mouseButton
                              THEN SamplePoints(event)
                              ELSE <<>>)

\* C34, as claimed: when start fires, the points added to the pattern
\* constructor are those of all buffered samples from the press to the move
\* that crossed the threshold, each sample contributing its sub-samples or,
\* having none, itself, in the order of the buffer; each update adds the
\* sub-samples of its move, or the move itself.
C34_Original ==
  [][/\ StartFired => points' = points \o BufferPoints(mouseEventBuffer')
     /\ UpdateFeedsMove]_vars

\* what the start listener does instead: the points added are the
\* sub-samples of all buffered samples in the order of the buffer, a sample
\* without sub-samples - the press always - contributing nothing; only if no
\* buffered sample has a sub-sample the buffered samples themselves are
\* added. Each update adds the sub-samples of its move, or the move itself if
\* it has none. No point is added by any other step.
C34_CoalescedOrBuffer ==
  [][/\ StartFired =>
          points' = points \o (IF SubSamplePoints(mouseEventBuffer') = <<>>
                                 THEN Positions(mouseEventBuffer')
                                 ELSE SubSamplePoints(mouseEventBuffer'))
     /\ UpdateFeedsMove
     /\ (lastCall' = "pointermove" /\ state = PENDING /\ ~StartFired) => points' = points
     /\ (lastCall' = "pointermove" /\ state \in {PASSIVE, ABORTED}) => points' = points
     /\ lastCall' \in {"pointerdown", "enable"} => points' = points]_vars

\* C34 witness: start fired for a press and two moves, the first without
\* sub-samples, the second with two: the press and the first move are not
\* among the points
C34_Witness ==
  /\ state = ACTIVE
  /\ Len(mouseEventBuffer) = 3
  /\ mouseEventBuffer[2].coalesced = <<>>
  /\ Len(mouseEventBuffer[3].coalesced) = 2
  /\ points = <<MidPoint, <<10, 10>>>>

\* C34, second witness: no buffered sample had a sub-sample when start fired,
\* the press and the move were added, and an update added its two sub-samples
C34_WitnessFallback ==
  /\ state = ACTIVE
  /\ Len(mouseEventBuffer) = 3
  /\ mouseEventBuffer[2].coalesced = <<>>
  /\ points = <<<<0, 0>>, <<10, 10>>, MidPoint, <<10, 0>>>>

\* C35: whenever the drag controller is Passive the pattern constructor
\* holds no points, getPattern() returns [], so that the pattern sent with
\* gestureEnd is built from the samples of the attempt that ended only.
C35_Original == state = PASSIVE => getPattern(patternConstructor) = <<>>

\* C35 witness: an attempt of a press, one move and the release sent a
\* pattern of three vectors with gestureEnd: the points of an attempt that
\* cancel() had ended were still in the pattern constructor
C35_Witness ==
  /\ lastCall = "pointerup"
  /\ state = PASSIVE
  /\ Len(sent) > 0 /\ sent[1] = "gestureEnd"
  /\ sentData[1].pattern = <<(<<10, 10>>), <<-10, -10>>, <<10, 10>>>>
  /\ \A i \in Dispatched(fired, "end") : Len(fired[i].buffer) <= 3
  /\ Dispatched(fired, "end") # {}

\* C36: with the events one physical mouse produces, the drag controller is
\* Passive, its gesture listeners detached, whenever no button is held.
C36_Original ==
  buttonsHeld = {} => (state = PASSIVE /\ attached \cap GestureListeners = {})

\* C36 witness: the release of the last button, another one than the
\* trigger, left a started gesture Active with its listeners attached
C36_Witness ==
  /\ lastCall = "pointerup"
  /\ buttonsHeld = {}
  /\ state = ACTIVE
  /\ GestureListeners \subseteq attached
  /\ fired = <<>>

\* C37: within one gesture attempt abort is fired at most once: a step fires
\* it once at most, and never for an attempt that is Aborted already,
\* whether a suppression key or the timeout calls abort().
C37_Original ==
  [][/\ Cardinality(Dispatched(fired', "abort")) <= 1
     /\ (state = ABORTED /\ lastCall' \in {"keydown", "timeout"}) =>
          Dispatched(fired', "abort") = {}]_vars

\* C38: once abort has fired the attempt fires no update and no end: while
\* the controller is Aborted no step fires start, update or end, an accepted
\* move is only appended to the buffer, any other move changes nothing, and
\* the release of the trigger button resets the controller to Passive
\* without firing anything or sending a message. (An accepted press in
\* Aborted begins another attempt.)
C38_SilentAfterAbort ==
  [][state = ABORTED =>
       /\ Dispatched(fired', "start") = {}
       /\ Dispatched(fired', "update") = {}
       /\ Dispatched(fired', "end") = {}
       /\ \A event \in PointerMoveEvents :
            (lastCall' = "pointermove" /\ DispatchPointerMove(event)) =>
              /\ state' = ABORTED
              /\ fired' = <<>>
              /\ mouseEventBuffer' =
                   IF event.isTrusted /\ event.buttons = mouseButton
                     THEN Append(mouseEventBuffer, event)
                     ELSE mouseEventBuffer
       /\ \A event \in PointerUpEvents :
            (/\ lastCall' = "pointerup"
             /\ event.isTrusted
             /\ event.button = TriggerButton
             /\ DispatchPointerUp(event)) =>
              /\ state' = PASSIVE
              /\ fired' = <<>>
              /\ sent' = <<>>
              /\ mouseEventBuffer' = <<>>]_vars

\* C38 witness: a gesture that had started was aborted, and a move beyond the
\* threshold received since fired nothing and is the last of the buffer
C38_Witness ==
  /\ state = ABORTED
  /\ lastCall = "pointermove"
  /\ preventDefault
  /\ fired = <<>>
  /\ Len(mouseEventBuffer) = 3
  /\ Client(mouseEventBuffer[2]) = <<10, 10>>
  /\ Client(mouseEventBuffer[3]) = <<0, 0>>

\* -1, 0 or 1 as n is negative, 0 or positive
Sign(n) == IF n < 0 THEN -1 ELSE IF n > 0 THEN 1 ELSE 0

\* C39: the sensitivity being fixed, after every event handled the magnitude
\* of the wheel accumulator is below the sensitivity; after an accepted wheel
\* sample the accumulator is 0 or has the sign of the sample's delta, and any
\* other event leaves it as it was or sets it to 0; one wheel sample fires at
\* most one event, however large its delta.
C39_AccumulatorBelowSensitivity ==
  [][/\ Abs(accumulatedDeltaY') < wheelSensitivity
     /\ \A event \in WheelEvents :
          (lastCall' = "wheel" /\ DispatchWheel(event)) =>
            /\ Len(fired') <= 1
            /\ Len(sent') <= 1
            /\ IF WheelAccepted(event)
                 THEN accumulatedDeltaY' = 0
                        \/ Sign(accumulatedDeltaY') = Sign(event.deltaY)
                 ELSE accumulatedDeltaY' = accumulatedDeltaY
     /\ lastCall' # "wheel" =>
          (accumulatedDeltaY' = accumulatedDeltaY \/ accumulatedDeltaY' = 0)]_vars

\* C39 witness: a sample whose delta alone exceeds the sensitivity, added to
\* deltas accumulated, fired one wheelup and left the accumulator at 0
C39_Witness ==
  /\ lastCall = "wheel"
  /\ accumulatedBefore = -1
  /\ Len(fired) = 1
  /\ fired[1].name = "wheelup"
  /\ fired[1].event.deltaY = -6
  /\ Abs(fired[1].event.deltaY) > wheelSensitivity
  /\ accumulatedDeltaY = 0

\* C39, second witness: the accumulator one below the sensitivity
C39_WitnessBelow ==
  /\ lastCall = "wheel"
  /\ fired = <<>>
  /\ accumulatedDeltaY = wheelSensitivity - 1

RECURSIVE VectorSum(_)
\* the component-wise sum of a list of vectors
VectorSum(vectors) ==
  IF vectors = <<>>
    THEN <<0, 0>>
    ELSE <<Head(vectors)[1] + VectorSum(Tail(vectors))[1],
           Head(vectors)[2] + VectorSum(Tail(vectors))[2]>>

\* C40: for every non-empty sequence of points added since the construction
\* or the last clear(), the vectors of getPattern() - the extracted segments
\* and the trailing vector - add up to the last point added minus the first
\* one, also when the last points were within the distance threshold.
C40_PatternSum ==
  points # <<>> =>
    VectorSum(getPattern(patternConstructor))
      = <<points[Len(points)][1] - points[1][1], points[Len(points)][2] - points[1][2]>>

\* C40 witness: a segment extracted and a last point within the distance
\* threshold of the previous point, after a first point other than the origin
C40_Witness ==
  /\ Len(points) = MaxPoints
  /\ points[1] # <<0, 0>>
  /\ Len(patternConstructor.extracedVectors) >= 1
  /\ patternConstructor.lastPoint # patternConstructor.previousPoint
  /\ changeIndicator = 0


====
